---------------------------- MODULE Spec2Model ----------------------------
(***************************************************************************)
(* A model of BorgorTube (src/main.py): the quality resolver, the mpv IPC  *)
(* position query, the extraction cache and orchestrator run by pool       *)
(* workers, and the playback session driven by the GUI thread.             *)
(*                                                                         *)
(* Specifications:                                                         *)
(*   SpecTiers  available_buckets applied to bounded lists of formats      *)
(*   SpecIpc    get_current_playback_time against every modelled peer      *)
(*   Spec       the application: pool workers and the GUI handlers         *)
(*   SpecFair   Spec with weakly fair pool threads                         *)
(*   SpecIpcFair  SpecIpc with a weakly fair caller                        *)
(*   SpecFormat   FORMAT_MAPPING looked up for every label                 *)
(*   SpecCookies  save_cookies_to_file applied to bounded cookie lists     *)
(*   SpecRequests searches and extractions in flight, applied on arrival   *)
(*   SpecCache    extract_with_fallback called three times on two threads  *)
(*   SpecChannel  get_channel_videos and its cache                         *)
(***************************************************************************)
EXTENDS Integers, Sequences, FiniteSets, TLC

(***************************************************************************)
(* Python's None, for an integer field that is absent or null.             *)
(***************************************************************************)
None == -1

\* `x or 0` on an integer-or-None value (main.py:60-61)
OrZero(x) == IF x = None \/ x = 0 THEN 0 ELSE x

(***************************************************************************)
(* Bounds                                                                  *)
(***************************************************************************)
\* longest list of formats handed to available_buckets in SpecTiers
MaxFormats == 2

\* extractions started in one run of Spec
MaxExtractions == 2

\* mpv processes alive at once on the host
MaxProcs == 2

\* longest list of cookies handed to save_cookies_to_file in SpecCookies
MaxCookies == 2

VARIABLES
    tier_info,      \* SpecTiers: the info dict given to available_buckets
    tier_result,    \* SpecTiers: the list it returned
    tier_done,      \* SpecTiers: whether it has been applied
    ipc_peer,       \* SpecIpc: what the socket's peer does (connect, chunks, end)
    ipc_pc,         \* SpecIpc: position in get_current_playback_time
    ipc_read,       \* SpecIpc: how many chunks recv has returned
    ipc_response,   \* SpecIpc: the local `response`, as tokens
    ipc_ret,        \* SpecIpc: the value returned, in tenths of a second
    extraction_cache,   \* the dict extraction_cache: (url, cookies_file) -> info
    cookies_file,   \* cookies.txt: whether it exists, how often it was written
    calls,          \* how often ydl.extract_info (per key) and
                    \* get_cookies_headless were called
    tasks,          \* per pool worker: its position in extract_with_fallback
    signals,        \* finished signals queued for the GUI thread
    started,        \* how many extractions were started
    session,        \* the fields of ModernYouTubeClient that make the session
    mpv_live,       \* the mpv processes alive on the host
    gui_trace,      \* the calls and console lines of the last handler
    gui_hung,       \* the GUI thread is stuck in a call that never returns
    host,           \* platform.system() and whether mpv is installed
    fmt_label,      \* SpecFormat: the quality label looked up
    fmt_variant,    \* SpecFormat: a format the expression is put to
    fmt_filter,     \* SpecFormat: the expression found for the label
    fmt_done,       \* SpecFormat: whether the lookup was made
    ck_cookies,     \* SpecCookies: the cookies given to save_cookies_to_file
    ck_file,        \* SpecCookies: the text written to the file
    ck_done,        \* SpecCookies: whether the file was written
    search_cache,   \* SpecRequests: the dict search_cache: query -> results
    req_workers,    \* SpecRequests: the Workers handed to the pool, in order
    req_signals,    \* SpecRequests: finished signals queued for the GUI thread
    req_arrived,    \* SpecRequests: the Workers in the order they emitted
    req_grid,       \* SpecRequests: the videos shown in the home grid
    channel_videos_cache,   \* SpecChannel: the dict channel_videos_cache
    ch_calls,       \* SpecChannel: per key, how often ydl.extract_info ran
                    \* and how often the listing failed
    ch_last         \* SpecChannel: the last call: its key, outcome and value

tierVars == <<tier_info, tier_result, tier_done>>

ipcVars == <<ipc_peer, ipc_pc, ipc_read, ipc_response, ipc_ret>>

workerVars ==
    <<extraction_cache, cookies_file, calls, tasks, signals, started>>

guiVars == <<session, mpv_live, gui_trace, gui_hung, host>>

appVars == <<workerVars, guiVars>>

fmtVars == <<fmt_label, fmt_variant, fmt_filter, fmt_done>>

ckVars == <<ck_cookies, ck_file, ck_done>>

reqVars == <<search_cache, req_workers, req_signals, req_arrived, req_grid>>

chVars == <<channel_videos_cache, ch_calls, ch_last>>

vars == <<tierVars, ipcVars, appVars, fmtVars, ckVars, reqVars, chVars>>

(***************************************************************************)
(* Quality resolver (main.py:33-79)                                        *)
(***************************************************************************)
\* the keys of FORMAT_MAPPING in insertion order
ALL_QUALITIES ==
    <<"2k", "1080p60", "1080p", "720p60", "720p", "360p", "240p", "144p">>

\* a plausible slip: the 720p bucket without its upper bound
buckets_of_no_upper(h, fps) ==
    (IF h >= 1440 THEN {"2k"} ELSE {})
    \cup (IF h >= 1080 /\ fps >= 60 THEN {"1080p60"} ELSE {})
    \cup (IF h >= 1080 THEN {"1080p"} ELSE {})
    \cup (IF h >= 720 /\ fps >= 60 THEN {"720p60"} ELSE {})
    \cup (IF h >= 720 THEN {"720p"} ELSE {})
    \cup (IF h >= 360 /\ h < 720 THEN {"360p"} ELSE {})
    \cup (IF h >= 240 /\ h < 360 THEN {"240p"} ELSE {})
    \cup (IF h >= 144 /\ h < 240 THEN {"144p"} ELSE {})

\* a plausible slip: a 60 fps format of height 720 counted as 720p60 only
buckets_of_720p_exclusive(h, fps) ==
    (IF h >= 1440 THEN {"2k"} ELSE {})
    \cup (IF h >= 1080 /\ fps >= 60 THEN {"1080p60"} ELSE {})
    \cup (IF h >= 1080 THEN {"1080p"} ELSE {})
    \cup (IF h >= 720 /\ fps >= 60 THEN {"720p60"} ELSE {})
    \cup (IF h >= 720 /\ h < 1080 /\ fps < 60 THEN {"720p"} ELSE {})
    \cup (IF h >= 360 /\ h < 720 THEN {"360p"} ELSE {})
    \cup (IF h >= 240 /\ h < 360 THEN {"240p"} ELSE {})
    \cup (IF h >= 144 /\ h < 240 THEN {"144p"} ELSE {})

\* the buckets one format adds: the eight `if` statements of the loop body
buckets_of(h, fps) ==
    (IF h >= 1440 THEN {"2k"} ELSE {})
    \cup (IF h >= 1080 /\ fps >= 60 THEN {"1080p60"} ELSE {})
    \cup (IF h >= 1080 THEN {"1080p"} ELSE {})
    \cup (IF h >= 720 /\ fps >= 60 THEN {"720p60"} ELSE {})
    \cup (IF h >= 720 /\ h < 1080 THEN {"720p"} ELSE {})
    \cup (IF h >= 360 /\ h < 720 THEN {"360p"} ELSE {})
    \cup (IF h >= 240 /\ h < 360 THEN {"240p"} ELSE {})
    \cup (IF h >= 144 /\ h < 240 THEN {"144p"} ELSE {})

\* the `for f in formats` loop, accumulating bucket_avail
RECURSIVE bucket_loop(_, _)
bucket_loop(formats, bucket_avail) ==
    IF formats = <<>> THEN bucket_avail
    ELSE LET f == Head(formats)
             h == OrZero(f.height)
             fps == OrZero(f.fps)
         IN bucket_loop(Tail(formats), bucket_avail \cup buckets_of(h, fps))

\* a plausible slip: the empty result returned as it is
bucket_result_no_fallback(bucket_avail) ==
    SelectSeq(ALL_QUALITIES, LAMBDA q : q \in bucket_avail)

\* `result = [q for q in ALL_QUALITIES if q in bucket_avail]`
\* `return result if result else ["360p"]`
bucket_result(bucket_avail) ==
    LET result == SelectSeq(ALL_QUALITIES, LAMBDA q : q \in bucket_avail)
    IN IF result # <<>> THEN result ELSE <<"360p">>

available_buckets(info) == bucket_result(bucket_loop(info.formats, {}))

(***************************************************************************)
(* mpv IPC position query (main.py:81-102)                                 *)
(*                                                                         *)
(* Bytes on the socket are modelled as sequences of JSON tokens; a token   *)
(* is [t, v] with t its type and v its payload: for "num" the number in    *)
(* tenths of a second, for "str" an index into the strings of StrText.     *)
(***************************************************************************)
Tok(t, v) == [t |-> t, v |-> v]
LB == Tok("lbrace", 0)
RB == Tok("rbrace", 0)
COLON == Tok("colon", 0)
COMMA == Tok("comma", 0)
NL == Tok("nl", 0)
TRUE_T == Tok("true", 0)
NULL_T == Tok("null", 0)
Num(n) == Tok("num", n)
Str(i) == Tok("str", i)

\* the strings that occur: "data", "error", and the numeric text "42.5"
StrData == 0
StrError == 1
StrNumeric == 2

\* a parsed JSON value: k its kind, v a scalar's payload, m an object's
\* members in source order
JVal(k, v, m) == [k |-> k, v |-> v, m |-> m]
Raise(kind) == [exc |-> kind, val |-> 0]
Return(x) == [exc |-> "", val |-> x]

\* str.strip() and the whitespace json.loads skips between tokens: the only
\* whitespace token is the newline
StripWs(ts) == SelectSeq(ts, LAMBDA t : t.t # "nl")

RestFrom(ts, i) == SubSeq(ts, i, Len(ts))

\* json.loads: one value, [ok, val, rest]
RECURSIVE ParseValue(_)
RECURSIVE ParseMembers(_, _)
RECURSIVE AfterMember(_, _, _)
ParseFail == [ok |-> FALSE, val |-> JVal("null", 0, <<>>), rest |-> <<>>]

ParseValue(ts) ==
    IF ts = <<>> THEN ParseFail
    ELSE CASE Head(ts).t = "num" ->
                [ok |-> TRUE, val |-> JVal("num", Head(ts).v, <<>>),
                 rest |-> Tail(ts)]
           [] Head(ts).t = "str" ->
                [ok |-> TRUE, val |-> JVal("str", Head(ts).v, <<>>),
                 rest |-> Tail(ts)]
           [] Head(ts).t = "true" ->
                [ok |-> TRUE, val |-> JVal("bool", 1, <<>>), rest |-> Tail(ts)]
           [] Head(ts).t = "null" ->
                [ok |-> TRUE, val |-> JVal("null", 0, <<>>), rest |-> Tail(ts)]
           [] Head(ts).t = "lbrace" ->
                IF Len(ts) >= 2 /\ ts[2].t = "rbrace"
                THEN [ok |-> TRUE, val |-> JVal("obj", 0, <<>>),
                      rest |-> RestFrom(ts, 3)]
                ELSE ParseMembers(Tail(ts), <<>>)
           [] OTHER -> ParseFail

\* a member `"key": value` and what follows it
ParseMembers(ts, acc) ==
    IF Len(ts) >= 2 /\ ts[1].t = "str" /\ ts[2].t = "colon"
    THEN AfterMember(ts[1].v, acc, ParseValue(RestFrom(ts, 3)))
    ELSE ParseFail

AfterMember(key, acc, pv) ==
    IF ~pv.ok \/ pv.rest = <<>> THEN ParseFail
    ELSE IF pv.rest[1].t = "rbrace"
         THEN [ok |-> TRUE,
               val |-> JVal("obj", 0, Append(acc, [key |-> key, val |-> pv.val])),
               rest |-> Tail(pv.rest)]
    ELSE IF pv.rest[1].t = "comma"
         THEN ParseMembers(Tail(pv.rest),
                           Append(acc, [key |-> key, val |-> pv.val]))
    ELSE ParseFail

\* the document is one value and nothing after it
loads_result(pv) ==
    IF pv.ok /\ pv.rest = <<>> THEN Return(pv.val)
    ELSE Raise("JSONDecodeError")

\* json.loads(response.decode("utf-8").strip()): the value, or
\* JSONDecodeError on an empty, malformed or over-long document
json_loads(response) == loads_result(ParseValue(StripWs(response)))

\* `"data" in data`: key lookup on a dict, substring test on a str,
\* TypeError on a number, a bool or None
contains_data(data) ==
    CASE data.k = "obj" ->
            Return(\E i \in DOMAIN data.m : data.m[i].key = StrData)
      [] data.k = "str" -> Return(data.v = StrData)
      [] OTHER -> Raise("TypeError")

\* data["data"]: a dict built by json.loads keeps the last of equal keys;
\* a str indexed by a str is a TypeError
get_data(data) ==
    IF data.k = "obj"
    THEN LET I == {i \in DOMAIN data.m : data.m[i].key = StrData}
             last == CHOOSE i \in I : \A j \in I : j <= i
         IN Return(data.m[last].val)
    ELSE Raise("TypeError")

\* float(x): a number as it is, True as 1.0, a str by parsing it
\* (ValueError when it spells no number), TypeError on None, dict
float_of(x) ==
    CASE x.k = "num" -> Return(x.v)
      [] x.k = "bool" -> Return(10 * x.v)
      [] x.k = "str" ->
            IF x.v = StrNumeric THEN Return(425) ELSE Raise("ValueError")
      [] OTHER -> Raise("TypeError")

\* line 99: float(data["data"]) once data["data"] is read
after_index(d) == IF d.exc # "" THEN d ELSE float_of(d.val)

\* lines 98-99: the `if "data" in data` test; falling off the `if` reaches
\* `return 0.0`
after_in(data, has) ==
    IF has.exc # "" THEN has
    ELSE IF has.val THEN after_index(get_data(data))
    ELSE Return(0)

\* line 97: data = json.loads(...)
after_loads(data) ==
    IF data.exc # "" THEN data
    ELSE after_in(data.val, contains_data(data.val))

\* lines 97-99: parse the response and read "data"
parse_playback_time(response) == after_loads(json_loads(response))

\* the exceptions of the body that derive from Exception
ExceptionKinds ==
    {"OSError", "JSONDecodeError", "TypeError", "ValueError"}

\* a plausible slip: `except OSError`, which lets a parse error out
try_except_oserror_only(outcome) ==
    IF outcome.exc = "" THEN [raised |-> FALSE, val |-> outcome.val]
    ELSE IF outcome.exc = "OSError"
         THEN [raised |-> FALSE, val |-> 0]
         ELSE [raised |-> TRUE, val |-> 0]

\* `except Exception as e: print(...)` then `return 0.0`: [raised, val]
try_except(outcome) ==
    IF outcome.exc = "" THEN [raised |-> FALSE, val |-> outcome.val]
    ELSE IF outcome.exc \in ExceptionKinds
         THEN [raised |-> FALSE, val |-> 0]
         ELSE [raised |-> TRUE, val |-> 0]

\* the `while True` loop of lines 89-95 run to its end: chunks are appended
\* until one holds a newline; an empty chunk is the peer's close; a peer
\* that stays silent leaves recv blocked
ChunkHasNewline(chunk) == \E i \in DOMAIN chunk : chunk[i].t = "nl"

RECURSIVE recv_loop(_, _, _)
recv_loop(chunks, end, response) ==
    IF chunks = <<>>
    THEN [blocked |-> end = "silent", response |-> response]
    ELSE IF ChunkHasNewline(Head(chunks))
         THEN [blocked |-> FALSE, response |-> response \o Head(chunks)]
         ELSE recv_loop(Tail(chunks), end, response \o Head(chunks))

\* the call as its caller sees it: [blocked, raised, val]
call_returned(r) == [blocked |-> FALSE, raised |-> r.raised, val |-> r.val]

\* lines 96-99 once the loop is left, if it is left
after_recv(got) ==
    IF got.blocked
    THEN [blocked |-> TRUE, raised |-> FALSE, val |-> 0]
    ELSE call_returned(try_except(parse_playback_time(got.response)))

\* the whole call against a peer
get_current_playback_time(peer) ==
    IF peer.connect = "refused"
    THEN call_returned(try_except(Raise("OSError")))
    ELSE after_recv(recv_loop(peer.chunks, peer.end, <<>>))

\* the text of an object of one member, and of two
Obj1(k, v) == <<LB, k, COLON>> \o v \o <<RB>>

Obj2(k1, v1, k2, v2) ==
    <<LB, k1, COLON>> \o v1 \o <<COMMA, k2, COLON>> \o v2 \o <<RB>>

\* the variables of SpecTiers and SpecIpc while another specification runs
TierIdle ==
    /\ tier_info = [formats |-> <<>>]
    /\ tier_result = <<>>
    /\ tier_done = FALSE

IpcIdle ==
    /\ ipc_peer = [connect |-> "refused", chunks |-> <<>>, end |-> "close"]
    /\ ipc_pc = "idle"
    /\ ipc_read = 0
    /\ ipc_response = <<>>
    /\ ipc_ret = 0

FormatIdle ==
    /\ fmt_label = ""
    /\ fmt_variant = [height |-> None, fps |-> None]
    /\ fmt_filter = [best |-> TRUE, height_ge |-> None, height_lt |-> None,
                     fps_ge |-> None]
    /\ fmt_done = FALSE

CookiesIdle ==
    /\ ck_cookies = <<>>
    /\ ck_file = <<>>
    /\ ck_done = FALSE

RequestsIdle ==
    /\ search_cache = <<>>
    /\ req_workers = <<>>
    /\ req_signals = <<>>
    /\ req_arrived = <<>>
    /\ req_grid = <<>>

\* a call of get_channel_videos: its number, its key, how it ended and the
\* list it returned
ChannelCall(n, key, outcome, value) ==
    [n |-> n, key |-> key, outcome |-> outcome, value |-> value]

ChannelIdle ==
    /\ channel_videos_cache = <<>>
    /\ ch_calls = <<>>
    /\ ch_last = ChannelCall(0, <<"", 0>>, "none", <<>>)

\* one call or console line of a handler
Ev(op, text, num) == [op |-> op, text |-> text, num |-> num]

(***************************************************************************)
(* Extraction: the cache, the cookie fallback and the pool workers         *)
(* (main.py:163-257, 720-736)                                              *)
(***************************************************************************)
\* the threads of the pool, in the order the pool hands out work
WorkerOrder == <<"w1", "w2">>

Workers == {WorkerOrder[i] : i \in DOMAIN WorkerOrder}

Urls == {"u1", "u2"}

\* a format of an info dict: height, fps, the codec fields and the url
Format(h, fps, a, v, u) ==
    [height |-> h, fps |-> fps, acodec |-> a, vcodec |-> v, url |-> u]

FmtProgressive == Format(720, 30, "mp4a", "avc1", "progressive")
FmtVideoOnly == Format(1080, 60, "none", "avc1", "video")
FmtAudioOnly == Format(None, None, "mp4a", "none", "audio")
\* a storyboard, as yt-dlp lists it: neither audio nor video codec
FmtStoryboard == Format(90, None, "none", "none", "storyboard")

\* an info dict; "" stands for an absent key
Info(orig, web, uploader, formats) ==
    [none |-> FALSE, original_url |-> orig, webpage_url |-> web,
     uploader_url |-> uploader, formats |-> formats]

\* Python's None where an info dict is expected
NoInfo ==
    [none |-> TRUE, original_url |-> "", webpage_url |-> "",
     uploader_url |-> "", formats |-> <<>>]

\* what ydl.extract_info can return for a url
InfosOf(url) ==
    IF url = "u1"
    THEN {Info("u1", "u1", "channel",
               <<FmtVideoOnly, FmtAudioOnly, FmtProgressive>>),
          Info("", "u1", "", <<FmtProgressive>>)}
    ELSE {Info("u2", "u2", "channel", <<FmtStoryboard, FmtProgressive>>),
          Info("", "", "", <<FmtVideoOnly>>)}

\* the cookies_file argument of extract_formats: None or "cookies.txt"
CookieArgs == {"None", "cookies.txt"}

CacheKeys == Urls \X CookieArgs

\* the object a worker hands to its finished signal: the (mode, info) tuple
\* of extract_with_fallback, or the exception caught by Worker.run
Result(tag, info) == [tag |-> tag, info |-> info]
NoResult == Result("none", NoInfo)

\* one step of a call, kept while the call runs
Event(e, info) == [e |-> e, info |-> info]

IdleTask == [pc |-> "idle", url |-> "", result |-> NoResult, events |-> <<>>]

\* a plausible slip: the lookup that never hits
cache_lookup_never(cache, key) == [hit |-> FALSE, info |-> NoInfo]

\* `if cache_key in extraction_cache: return extraction_cache[cache_key]`
cache_lookup(cache, key) ==
    IF key \in DOMAIN cache
    THEN [hit |-> TRUE, info |-> cache[key]]
    ELSE [hit |-> FALSE, info |-> NoInfo]

\* `extraction_cache[cache_key] = info`
cache_store(cache, key, info) ==
    [k \in DOMAIN cache \cup {key} |-> IF k = key THEN info ELSE cache[k]]

\* an exception of ydl.extract_info leaves extract_formats before line 235
cache_after_failure(cache, key) == cache

Bump(f, k) == [f EXCEPT ![k] = @ + 1]

\* QThreadPool.start: the first thread that has nothing to run takes the
\* Worker ("" when all are busy)
FirstIdle ==
    LET I == {i \in DOMAIN WorkerOrder : tasks[WorkerOrder[i]].pc = "idle"}
    IN IF I = {} THEN ""
       ELSE WorkerOrder[CHOOSE i \in I : \A j \in I : i <= j]

\* start_extraction (main.py:720-725): a Worker for extract_with_fallback is
\* handed to the pool; no field of the session is written
start_extraction(w, url) ==
    /\ ~gui_hung
    /\ started < MaxExtractions
    /\ w = FirstIdle
    /\ tasks' = [tasks EXCEPT ![w] = [IdleTask EXCEPT !.pc = "anon_lookup",
                                                       !.url = url]]
    /\ started' = started + 1
    /\ gui_trace' = <<Ev("msg", "Extracting info for", 0)>>
    /\ UNCHANGED <<extraction_cache, cookies_file, calls, signals>>
    /\ UNCHANGED <<session, mpv_live, gui_hung, host, tierVars, ipcVars, fmtVars, ckVars, reqVars, chVars>>

\* extract_formats up to its cache test (main.py:222-224), for the first
\* call (cookies_file=None) and the second (cookies_file="cookies.txt")
ExtractLookup(w, at, arg, mode, miss) ==
    /\ tasks[w].pc = at
    /\ LET key == <<tasks[w].url, arg>>
           l == cache_lookup(extraction_cache, key)
       IN tasks' = [tasks EXCEPT ![w] =
            IF l.hit
            THEN [@ EXCEPT !.pc = "emit",
                          !.result = Result(mode, l.info),
                          !.events = Append(@, Event(mode \o "_hit", l.info))]
            ELSE [@ EXCEPT !.pc = miss]]
    /\ UNCHANGED <<extraction_cache, cookies_file, calls, signals, started>>
    /\ UNCHANGED <<guiVars, tierVars, ipcVars, fmtVars, ckVars, reqVars, chVars>>

\* extract_formats from the miss on (main.py:225-236): ydl.extract_info
\* returns an info, which is stored and returned, or raises
ExtractCall(w, at, arg, mode, failed, on_fail) ==
    /\ tasks[w].pc = at
    /\ LET key == <<tasks[w].url, arg>> IN
       /\ calls' = [calls EXCEPT !.ydl = Bump(@, key)]
       /\ \/ \E info \in InfosOf(tasks[w].url) :
               /\ extraction_cache' = cache_store(extraction_cache, key, info)
               /\ tasks' = [tasks EXCEPT ![w] =
                    [@ EXCEPT !.pc = "emit",
                              !.result = Result(mode, info),
                              !.events = Append(@, Event(mode \o "_call", info))]]
          \/ /\ extraction_cache' = cache_after_failure(extraction_cache, key)
             /\ tasks' = [tasks EXCEPT ![w] =
                    [@ EXCEPT !.pc = on_fail,
                              !.result = failed,
                              !.events = Append(@, Event(mode \o "_fail", NoInfo))]]
    /\ UNCHANGED <<cookies_file, signals, started>>
    /\ UNCHANGED <<guiVars, tierVars, ipcVars, fmtVars, ckVars, reqVars, chVars>>

\* line 729
AnonLookup(w) ==
    ExtractLookup(w, "anon_lookup", "None", "no_cookies", "anon_extract")

\* lines 729-731: a failure enters the except clause
AnonExtract(w) ==
    ExtractCall(w, "anon_extract", "None", "no_cookies", NoResult, "check_file")

\* a plausible slip: cookies acquired whether or not cookies.txt is there
CheckFile_ignores_file(w) ==
    /\ tasks[w].pc = "check_file"
    /\ tasks' = [tasks EXCEPT ![w] =
         [@ EXCEPT !.pc = "acquire",
                   !.events = Append(@, Event(IF cookies_file.exists
                                              THEN "file_present"
                                              ELSE "file_absent", NoInfo))]]
    /\ UNCHANGED <<extraction_cache, cookies_file, calls, signals, started>>
    /\ UNCHANGED <<guiVars, tierVars, ipcVars, fmtVars, ckVars, reqVars, chVars>>

\* line 732: `if not os.path.exists("cookies.txt")`
CheckFile(w) ==
    /\ tasks[w].pc = "check_file"
    /\ tasks' = [tasks EXCEPT ![w] =
         IF ~cookies_file.exists
         THEN [@ EXCEPT !.pc = "acquire",
                        !.events = Append(@, Event("file_absent", NoInfo))]
         ELSE [@ EXCEPT !.pc = "cred_lookup",
                        !.events = Append(@, Event("file_present", NoInfo))]]
    /\ UNCHANGED <<extraction_cache, cookies_file, calls, signals, started>>
    /\ UNCHANGED <<guiVars, tierVars, ipcVars, fmtVars, ckVars, reqVars, chVars>>

\* a plausible slip: a failed acquisition swallowed, the call going on to
\* the credentialed extraction
Acquire_failure_ignored(w) ==
    /\ tasks[w].pc = "acquire"
    /\ calls' = [calls EXCEPT !.acquire = @ + 1]
    /\ \/ tasks' = [tasks EXCEPT ![w] =
            [@ EXCEPT !.pc = "save",
                      !.events = Append(@, Event("acquire", NoInfo))]]
       \/ tasks' = [tasks EXCEPT ![w] =
            [@ EXCEPT !.pc = "cred_lookup",
                      !.events = Append(@, Event("acquire_fail", NoInfo))]]
    /\ UNCHANGED <<extraction_cache, cookies_file, signals, started>>
    /\ UNCHANGED <<guiVars, tierVars, ipcVars, fmtVars, ckVars, reqVars, chVars>>

\* line 733: asyncio.run(get_cookies_headless(video_url)); an exception of
\* it leaves extract_with_fallback and is caught by Worker.run
Acquire(w) ==
    /\ tasks[w].pc = "acquire"
    /\ calls' = [calls EXCEPT !.acquire = @ + 1]
    /\ \/ tasks' = [tasks EXCEPT ![w] =
            [@ EXCEPT !.pc = "save",
                      !.events = Append(@, Event("acquire", NoInfo))]]
       \/ tasks' = [tasks EXCEPT ![w] =
            [@ EXCEPT !.pc = "emit",
                      !.result = Result("error", NoInfo),
                      !.events = Append(@, Event("acquire_fail", NoInfo))]]
    /\ UNCHANGED <<extraction_cache, cookies_file, signals, started>>
    /\ UNCHANGED <<guiVars, tierVars, ipcVars, fmtVars, ckVars, reqVars, chVars>>

\* line 734: save_cookies_to_file(cookies, "cookies.txt")
Save(w) ==
    /\ tasks[w].pc = "save"
    /\ cookies_file' = [exists |-> TRUE, writes |-> cookies_file.writes + 1]
    /\ tasks' = [tasks EXCEPT ![w] =
            [@ EXCEPT !.pc = "cred_lookup",
                      !.events = Append(@, Event("save", NoInfo))]]
    /\ UNCHANGED <<extraction_cache, calls, signals, started>>
    /\ UNCHANGED <<guiVars, tierVars, ipcVars, fmtVars, ckVars, reqVars, chVars>>

\* line 735
CredLookup(w) ==
    ExtractLookup(w, "cred_lookup", "cookies.txt", "cookies", "cred_extract")

\* lines 735-736: a failure leaves extract_with_fallback
CredExtract(w) ==
    ExtractCall(w, "cred_extract", "cookies.txt", "cookies",
                Result("error", NoInfo), "emit")

\* a plausible slip: the exception logged and not emitted
Emit_drops_error(w) ==
    /\ tasks[w].pc = "emit"
    /\ signals' = IF tasks[w].result.tag = "error" THEN signals
                  ELSE Append(signals, tasks[w].result)
    /\ tasks' = [tasks EXCEPT ![w] = IdleTask]
    /\ UNCHANGED <<extraction_cache, cookies_file, calls, started>>
    /\ UNCHANGED <<guiVars, tierVars, ipcVars, fmtVars, ckVars, reqVars, chVars>>

\* a plausible slip: the worker applies its result to the window itself
Emit_writes_session(w) ==
    /\ tasks[w].pc = "emit"
    /\ signals' = Append(signals, tasks[w].result)
    /\ tasks' = [tasks EXCEPT ![w] = IdleTask]
    /\ session' = [session EXCEPT !.current_info = tasks[w].result.info]
    /\ UNCHANGED <<extraction_cache, cookies_file, calls, started>>
    /\ UNCHANGED <<mpv_live, gui_trace, gui_hung, host>>
    /\ UNCHANGED <<tierVars, ipcVars, fmtVars, ckVars, reqVars, chVars>>

\* Worker.run (main.py:252-257): the value returned, or the exception
\* caught, is emitted on the finished signal and queued for the GUI thread
Emit(w) ==
    /\ tasks[w].pc = "emit"
    /\ signals' = Append(signals, tasks[w].result)
    /\ tasks' = [tasks EXCEPT ![w] = IdleTask]
    /\ UNCHANGED <<extraction_cache, cookies_file, calls, started>>
    /\ UNCHANGED <<guiVars, tierVars, ipcVars, fmtVars, ckVars, reqVars, chVars>>

WorkerStep(w) ==
    \/ AnonLookup(w)
    \/ AnonExtract(w)
    \/ CheckFile(w)
    \/ Acquire(w)
    \/ Save(w)
    \/ CredLookup(w)
    \/ CredExtract(w)
    \/ Emit(w)

(***************************************************************************)
(* Playback session and player control, run by the GUI thread              *)
(* (main.py:262-287, 343-346, 738-922)                                     *)
(*                                                                         *)
(* A handler is a function of a world W = [s, live, tr, hung]: the         *)
(* session fields, the mpv processes alive on the host, the calls and      *)
(* console lines of the handler so far, and whether the handler is stuck   *)
(* in a call that never returns.                                           *)
(***************************************************************************)
\* the video part of a --ytdl-format expression:
\* bestvideo[height>=ge][height<lt][fps>=fps]+bestaudio/best
Filter(ge, lt, fps) ==
    [best |-> FALSE, height_ge |-> ge, height_lt |-> lt, fps_ge |-> fps]

\* the expression "best"
BestFormat ==
    [best |-> TRUE, height_ge |-> None, height_lt |-> None, fps_ge |-> None]

FORMAT_MAPPING ==
    [q \in {ALL_QUALITIES[i] : i \in DOMAIN ALL_QUALITIES} |->
        CASE q = "2k" -> Filter(1440, None, None)
          [] q = "1080p60" -> Filter(1080, None, 60)
          [] q = "1080p" -> Filter(1080, None, None)
          [] q = "720p60" -> Filter(720, None, 60)
          [] q = "720p" -> Filter(720, 1080, None)
          [] q = "360p" -> Filter(360, 720, None)
          [] q = "240p" -> Filter(240, 360, None)
          [] q = "144p" -> Filter(144, 240, None)]

\* a plausible slip: the default tier's expression for an unknown label
format_of_default_360p(quality_label) ==
    IF quality_label \in DOMAIN FORMAT_MAPPING
    THEN FORMAT_MAPPING[quality_label]
    ELSE FORMAT_MAPPING["360p"]

\* FORMAT_MAPPING.get(quality_label, "best")
format_of(quality_label) ==
    IF quality_label \in DOMAIN FORMAT_MAPPING
    THEN FORMAT_MAPPING[quality_label]
    ELSE BestFormat

\* the session as __init__ leaves it; 0 is None for a process handle, ""
\* for a url; combo_index 0 is Qt's -1 (no current item)
InitSession ==
    [current_info |-> NoInfo,
     current_video_url |-> "",
     qualities_available |-> <<>>,
     player_process |-> 0,
     video_process |-> 0,
     audio_process |-> 0,
     is_detached |-> FALSE,
     combo_items |-> <<"360p">>,
     combo_index |-> 1,
     sync_timer |-> FALSE]

World(s, live) == [s |-> s, live |-> live, tr |-> <<>>, hung |-> FALSE]

Log(W, e) == [W EXCEPT !.tr = Append(@, e)]

\* a new QProcess, for the handle named `field`, gets the least id that no
\* live process and none of the other handles holds
FreshId(W, field) ==
    LET used == {p.id : p \in W.live}
                \cup {W.s[f] : f \in {"player_process", "video_process",
                                      "audio_process"} \ {field}}
    IN CHOOSE i \in 1..(Cardinality(used) + 1) :
          i \notin used /\ \A j \in 1..(i - 1) : j \in used

\* an mpv process: what it plays and the arguments that matter
Proc(id, role, url, fmt, start, wid, ipc) ==
    [id |-> id, role |-> role, url |-> url, format |-> fmt,
     start |-> start, wid |-> wid, ipc |-> ipc]

\* QProcess.start("mpv", args): no process when the binary is missing
started_procs(hst, p) == IF hst.mpv_installed THEN {p} ELSE {}

\* kill_mpv (main.py:857-866): taskkill or pkill ends every mpv process
kill_mpv(W, hst) ==
    IF hst.os_type \in {"Windows", "Linux", "Darwin"}
    THEN Log([W EXCEPT !.live = {}], Ev("kill", "", 0))
    ELSE Log(W, Ev("msg", "Unsupported OS for killing mpv.", 0))

\* a plausible slip: the player always embedded in the widget
start_player_always_embedded(W, hst, quality_label, start_time) ==
    Log([W EXCEPT
           !.s.player_process = FreshId(W, "player_process"),
           !.live = @ \cup started_procs(hst,
                Proc(FreshId(W, "player_process"), "merged",
                     W.s.current_video_url, format_of(quality_label),
                     IF start_time > 0 THEN start_time ELSE 0,
                     TRUE, "/tmp/mpvsocket"))],
        Ev("launch", quality_label, start_time))

\* lines 844-846, after kill_mpv: the console line, the new QProcess and its
\* start; --start is among the arguments only when start_time > 0
start_player(W, hst, quality_label, start_time) ==
    Log([W EXCEPT
           !.s.player_process = FreshId(W, "player_process"),
           !.live = @ \cup started_procs(hst,
                Proc(FreshId(W, "player_process"), "merged",
                     W.s.current_video_url, format_of(quality_label),
                     IF start_time > 0 THEN start_time ELSE 0,
                     ~W.s.is_detached, "/tmp/mpvsocket"))],
        Ev("launch", quality_label, start_time))

\* a plausible slip: the start offset dropped
launch_mpv_merged_at_zero(W, hst, quality_label, start_time) ==
    IF W.hung THEN W
    ELSE IF W.s.current_video_url = ""
    THEN Log(W, Ev("msg", "No URL to play.", 0))
    ELSE start_player(kill_mpv(W, hst), hst, quality_label, 0)

\* launch_mpv_merged (main.py:823-846)
launch_mpv_merged(W, hst, quality_label, start_time) ==
    IF W.hung THEN W
    ELSE IF W.s.current_video_url = ""
    THEN Log(W, Ev("msg", "No URL to play.", 0))
    ELSE start_player(kill_mpv(W, hst), hst, quality_label, start_time)

\* quality_combo.currentText()
currentText(s) ==
    IF s.combo_index = 0 THEN "" ELSE s.combo_items[s.combo_index]

\* the peers get_current_playback_time("/tmp/mpvsocket") can meet: nobody
\* listening, or an mpv that answers with a position or does not answer
\* (SpecIpc has the answers that end in 0.0 like the refused connection)
RefusedPeer == [connect |-> "refused", chunks |-> <<>>, end |-> "close"]

AppPeers ==
    {RefusedPeer,
     [connect |-> "ok", end |-> "close", chunks |->
        <<Obj2(Str(StrData), <<Num(173)>>, Str(StrError), <<Str(StrError)>>)
          \o <<NL>> >>],
     [connect |-> "ok", end |-> "silent", chunks |-> <<>>]}

\* the peer behind /tmp/mpvsocket: an mpv only if a merged player is alive
\* (Windows has no AF_UNIX: the call raises before it connects)
peer_of(W, hst, peer) ==
    IF hst.os_type = "Windows" \/ ~\E p \in W.live : p.ipc = "/tmp/mpvsocket"
    THEN RefusedPeer
    ELSE peer

\* the handler once the call is made: stuck in it, or holding its value
query_returned(W, r) ==
    IF r.blocked
    THEN [W EXCEPT !.hung = TRUE,
                   !.tr = Append(@, Ev("query_blocked", "", 0))]
    ELSE Log(W, Ev("query", "", r.val))

\* time_pos = get_current_playback_time("/tmp/mpvsocket") inside a handler
query_time(W, hst, peer) ==
    query_returned(W, get_current_playback_time(peer_of(W, hst, peer)))

\* time_pos: the value the last query of the handler returned
last_query(W) ==
    LET I == {i \in DOMAIN W.tr : W.tr[i].op = "query"}
    IN IF I = {} THEN 0
       ELSE W.tr[CHOOSE i \in I : \A j \in I : j <= i].num

\* lines 853-855, with time_pos in hand
switch_quality(W, hst) ==
    IF W.hung THEN W
    ELSE launch_mpv_merged(
            Log(W, Ev("msg", "Switching quality to", last_query(W))),
            hst, currentText(W.s), last_query(W))

\* on_quality_changed (main.py:848-855), the slot of currentIndexChanged
on_quality_changed(W, hst, peer) ==
    IF W.hung THEN W
    ELSE IF W.s.current_video_url = "" \/ W.s.player_process = 0 THEN W
    ELSE switch_quality(query_time(W, hst, peer), hst)

\* quality_combo.clear(): the current index becomes -1 and, when it
\* changed, currentIndexChanged runs the slot
combo_clear(W, hst, peer) ==
    IF W.hung THEN W
    ELSE IF W.s.combo_index # 0
    THEN on_quality_changed(
            [W EXCEPT !.s.combo_items = <<>>, !.s.combo_index = 0], hst, peer)
    ELSE [W EXCEPT !.s.combo_items = <<>>]

\* quality_combo.addItem(q): the first item of an empty box becomes the
\* current one, and currentIndexChanged runs the slot
combo_addItem(W, hst, q, peer) ==
    IF W.hung THEN W
    ELSE IF W.s.combo_items = <<>>
    THEN on_quality_changed(
            [W EXCEPT !.s.combo_items = <<q>>, !.s.combo_index = 1], hst, peer)
    ELSE [W EXCEPT !.s.combo_items = Append(@, q)]

\* lines 769-770
RECURSIVE combo_addItems(_, _, _, _)
combo_addItems(W, hst, qs, peer) ==
    IF qs = <<>> THEN W
    ELSE combo_addItems(combo_addItem(W, hst, Head(qs), peer),
                        hst, Tail(qs), peer)

\* quality_combo.setCurrentIndex(i), i counted from 1
combo_setCurrentIndex(W, hst, i, peer) ==
    IF W.hung \/ W.s.combo_index = i THEN W
    ELSE on_quality_changed([W EXCEPT !.s.combo_index = i], hst, peer)

\* lines 745-750
video_url_of(info) ==
    IF info.original_url # "" THEN info.original_url
    ELSE IF info.webpage_url # "" THEN info.webpage_url
    ELSE ""

\* line 756: scrape_channel_avatar does its HTTP request in the handler
\* unless the channel url is empty
scrape_channel_avatar(W, channel_url) ==
    IF channel_url = "" THEN W
    ELSE Log(W, Ev("requests.get", channel_url, 0))

\* lines 743-764: the fields of the new video
set_video(W, info) ==
    Log(scrape_channel_avatar(
            [W EXCEPT !.s.current_info = info,
                      !.s.current_video_url = video_url_of(info)],
            info.uploader_url),
        Ev("msg", "Extraction succeeded", 0))

\* lines 767-772: the quality box refilled; peer1 and peer2 are the peers
\* the slot meets when clear() and addItem() run it
fill_quality_combo(W, hst, qs, peer1, peer2) ==
    combo_setCurrentIndex(
        combo_addItems(
            combo_clear([W EXCEPT !.s.qualities_available = qs], hst, peer1),
            hst, qs, peer2),
        hst, 1, peer2)

\* line 780
log_qualities(W) ==
    IF W.hung THEN W ELSE Log(W, Ev("msg", "Available qualities", 0))

\* lines 778-780: `best` is the first quality
launch_best(W, hst) ==
    log_qualities(launch_mpv_merged(W, hst, W.s.qualities_available[1], 0))

\* a plausible slip: playback stopped when an extraction fails
on_extraction_done_stops_player(W, hst, result, peer1, peer2) ==
    IF result.tag = "error"
    THEN kill_mpv(Log(W, Ev("msg", "Extraction error", 0)), hst)
    ELSE launch_best(
            fill_quality_combo(set_video(W, result.info), hst,
                               available_buckets(result.info), peer1, peer2),
            hst)

\* on_extraction_done (main.py:738-780)
on_extraction_done(W, hst, result, peer1, peer2) ==
    IF result.tag = "error"
    THEN Log(W, Ev("msg", "Extraction error", 0))
    ELSE launch_best(
            fill_quality_combo(set_video(W, result.info), hst,
                               available_buckets(result.info), peer1, peer2),
            hst)

\* lines 875-881: the first format with acodec "none", the first with
\* vcodec "none"
RECURSIVE first_url(_, _)
first_url(formats, field) ==
    IF formats = <<>> THEN ""
    ELSE IF Head(formats)[field] = "none" THEN Head(formats).url
    ELSE first_url(Tail(formats), field)

\* lines 897-902: the video player, in the widget unless detached
start_video(W, hst, video_only_url) ==
    Log([W EXCEPT
           !.s.video_process = FreshId(W, "video_process"),
           !.live = @ \cup started_procs(hst,
                Proc(FreshId(W, "video_process"), "video", video_only_url,
                     BestFormat, 0, ~W.s.is_detached, "/tmp/mpv_video"))],
        Ev("start", "video", 0))

\* lines 903-904: the audio player
start_audio(W, hst, audio_only_url) ==
    Log([W EXCEPT
           !.s.audio_process = FreshId(W, "audio_process"),
           !.live = @ \cup started_procs(hst,
                Proc(FreshId(W, "audio_process"), "audio", audio_only_url,
                     BestFormat, 0, FALSE, "/tmp/mpv_audio"))],
        Ev("start", "audio", 0))

\* line 905: sync_timer.start(1000)
start_sync_timer(W) == [W EXCEPT !.s.sync_timer = TRUE]

\* lines 882-905, with both urls in hand
play_streams(W, hst, video_only_url, audio_only_url) ==
    IF video_only_url = "" \/ audio_only_url = ""
    THEN launch_mpv_merged(
            Log(W, Ev("msg", "No separate streams found; fallback merged.", 0)),
            hst, currentText(W.s), 0)
    ELSE start_sync_timer(
            start_audio(start_video(kill_mpv(W, hst), hst, video_only_url),
                        hst, audio_only_url))

\* watch_separate_streams (main.py:870-905)
watch_separate_streams(W, hst) ==
    IF W.s.current_info.none
    THEN Log(W, Ev("msg", "No video info for separate streams.", 0))
    ELSE play_streams(W, hst,
                      first_url(W.s.current_info.formats, "acodec"),
                      first_url(W.s.current_info.formats, "vcodec"))

\* lines 913-919
flip_detached(W) ==
    Log([W EXCEPT !.s.is_detached = ~@],
        Ev("msg", IF W.s.is_detached THEN "Now in embedded mode."
                  ELSE "Now in detached mode.", 0))

\* line 922, with time_pos in hand
relaunch_at(W, hst) ==
    IF W.hung THEN W
    ELSE launch_mpv_merged(W, hst, currentText(W.s), last_query(W))

\* lines 920-922
relaunch_if_playing(W, hst, peer) ==
    IF W.s.current_video_url # "" /\ W.s.player_process # 0
    THEN relaunch_at(query_time(W, hst, peer), hst)
    ELSE W

\* toggle_detach (main.py:912-922)
toggle_detach(W, hst, peer) == relaunch_if_playing(flip_detached(W), hst, peer)

(***************************************************************************)
(* GUI thread: one action per handler, run from the event loop             *)
(***************************************************************************)
\* the handler's world written back to the state; the host has room for
\* MaxProcs mpv processes
Apply(W) ==
    /\ Cardinality(W.live) <= MaxProcs
    /\ session' = W.s
    /\ mpv_live' = W.live
    /\ gui_trace' = W.tr
    /\ gui_hung' = W.hung

\* the peers a handler can meet: no query is made while player_process is
\* None
PeersNow == IF session.player_process = 0 THEN {RefusedPeer} ELSE AppPeers

\* the user plays a url
StartExtraction == \E w \in Workers, url \in Urls : start_extraction(w, url)

\* a pool thread takes the next step of its Worker
WorkerRun == \E w \in Workers : WorkerStep(w)

\* the finished signal of a Worker delivered to on_extraction_done
OnExtractionDone ==
    /\ ~gui_hung
    /\ signals # <<>>
    /\ \E peer1 \in PeersNow, peer2 \in PeersNow :
          Apply(on_extraction_done(World(session, mpv_live), host,
                                   Head(signals), peer1, peer2))
    /\ signals' = Tail(signals)
    /\ UNCHANGED <<extraction_cache, cookies_file, calls, tasks, started, host>>
    /\ UNCHANGED <<tierVars, ipcVars, fmtVars, ckVars, reqVars, chVars>>

\* the user picks another entry of the quality box
UserSelectQuality ==
    /\ ~gui_hung
    /\ \E i \in DOMAIN session.combo_items, peer \in PeersNow :
          /\ i # session.combo_index
          /\ Apply(combo_setCurrentIndex(World(session, mpv_live), host, i, peer))
    /\ UNCHANGED <<workerVars, host, tierVars, ipcVars, fmtVars, ckVars, reqVars, chVars>>

\* the Detach button
ToggleDetach ==
    /\ ~gui_hung
    /\ \E peer \in PeersNow :
          Apply(toggle_detach(World(session, mpv_live), host, peer))
    /\ UNCHANGED <<workerVars, host, tierVars, ipcVars, fmtVars, ckVars, reqVars, chVars>>

WatchSeparateStreams ==
    /\ ~gui_hung
    /\ Apply(watch_separate_streams(World(session, mpv_live), host))
    /\ UNCHANGED <<workerVars, host, tierVars, ipcVars, fmtVars, ckVars, reqVars, chVars>>

\* check_sync (main.py:907-908), the slot of sync_timer.timeout
CheckSync ==
    /\ ~gui_hung
    /\ session.sync_timer
    /\ gui_trace' = <<Ev("msg", "Sync check (stub).", 0)>>
    /\ UNCHANGED <<session, mpv_live, gui_hung, workerVars, host>>
    /\ UNCHANGED <<tierVars, ipcVars, fmtVars, ckVars, reqVars, chVars>>

(***************************************************************************)
(* Spec: the application. The host is Windows, Linux, macOS or something   *)
(* else, with or without an mpv binary; cookies.txt may be left over from  *)
(* an earlier run.                                                         *)
(***************************************************************************)
OsTypes == {"Windows", "Linux", "Darwin", "Other"}

LinuxHost == [os_type |-> "Linux", mpv_installed |-> TRUE]

\* every branch of kill_mpv with mpv installed, and one host without mpv
Hosts ==
    {[os_type |-> os, mpv_installed |-> TRUE] : os \in OsTypes}
    \cup {[os_type |-> "Linux", mpv_installed |-> FALSE]}

AppIdle ==
    /\ extraction_cache = <<>>
    /\ cookies_file = [exists |-> FALSE, writes |-> 0]
    /\ calls = [ydl |-> [k \in CacheKeys |-> 0], acquire |-> 0]
    /\ tasks = [w \in Workers |-> IdleTask]
    /\ signals = <<>>
    /\ started = 0
    /\ session = InitSession
    /\ mpv_live = {}
    /\ gui_trace = <<>>
    /\ gui_hung = FALSE
    /\ host = LinuxHost

\* no code of a pool thread reads the host and no handler reads
\* cookies.txt: the left-over file is tried on one host
Init ==
    /\ extraction_cache = <<>>
    /\ host \in Hosts
    /\ cookies_file \in [exists : IF host = LinuxHost THEN BOOLEAN ELSE {FALSE},
                         writes : {0}]
    /\ calls = [ydl |-> [k \in CacheKeys |-> 0], acquire |-> 0]
    /\ tasks = [w \in Workers |-> IdleTask]
    /\ signals = <<>>
    /\ started = 0
    /\ session = InitSession
    /\ mpv_live = {}
    /\ gui_trace = <<>>
    /\ gui_hung = FALSE
    /\ TierIdle
    /\ IpcIdle
    /\ FormatIdle
    /\ CookiesIdle
    /\ RequestsIdle
    /\ ChannelIdle

Next ==
    \/ StartExtraction
    \/ WorkerRun
    \/ OnExtractionDone
    \/ UserSelectQuality
    \/ ToggleDetach
    \/ WatchSeparateStreams
    \/ CheckSync

Spec == Init /\ [][Next]_vars

\* a pool thread that has a Worker to run takes its next step: the
\* application under weak fairness of every pool thread
SpecFair == Init /\ [][Next]_vars /\ \A w \in Workers : WF_vars(WorkerStep(w))

(***************************************************************************)
(* SpecTiers: available_buckets over every list of at most MaxFormats      *)
(* formats whose height and fps sit on the bucket limits.                  *)
(***************************************************************************)
Heights ==
    {None, 0, 143, 144, 239, 240, 359, 360, 719, 720, 1079, 1080, 1439, 1440}

FrameRates == {None, 30, 59, 60}

TierFormats == [height : Heights, fps : FrameRates]

SeqsUpTo(S, n) == UNION {[1..k -> S] : k \in 0..n}

TiersInit ==
    /\ tier_info \in [formats : SeqsUpTo(TierFormats, MaxFormats)]
    /\ tier_result = <<>>
    /\ tier_done = FALSE
    /\ IpcIdle
    /\ AppIdle
    /\ FormatIdle
    /\ CookiesIdle
    /\ RequestsIdle
    /\ ChannelIdle

ApplyAvailableBuckets ==
    /\ ~tier_done
    /\ tier_result' = available_buckets(tier_info)
    /\ tier_done' = TRUE
    /\ UNCHANGED tier_info
    /\ UNCHANGED <<ipcVars, appVars, fmtVars, ckVars, reqVars, chVars>>

TiersNext == ApplyAvailableBuckets

SpecTiers == TiersInit /\ [][TiersNext]_vars

(***************************************************************************)
(* SpecIpc: get_current_playback_time, statement by statement, against a   *)
(* peer that refuses the connection, or accepts it and sends a document    *)
(* in one or two chunks and then closes or stays silent.                   *)
(***************************************************************************)
Atoms == {Num(425), Num(173), Str(StrError), Str(StrNumeric), TRUE_T, NULL_T}

ValueTexts == {<<a>> : a \in Atoms} \cup {<<LB, RB>>}

KeyToks == {Str(StrData), Str(StrError)}

Objects1 == {Obj1(k, v) : k \in KeyToks, v \in ValueTexts}

\* {"data": 42.5, "error": "error"}, as mpv answers, and its permutations
Objects2 ==
    {Obj2(k1, v1, k2, v2) :
        k1 \in KeyToks, k2 \in KeyToks,
        v1 \in {<<Num(425)>>, <<Str(StrError)>>, <<NULL_T>>},
        v2 \in {<<Num(173)>>, <<Str(StrError)>>, <<TRUE_T>>}}

\* documents that are no JSON value: cut short, or without the colon
Malformed ==
    {SubSeq(o, 1, Len(o) - 1) : o \in Objects1}
    \cup {<<LB, k>> \o v \o <<RB>> : k \in KeyToks, v \in ValueTexts}

Documents ==
    {<<>>, <<LB, RB>>, <<Str(StrData)>>} \cup ValueTexts
    \cup Objects1 \cup Objects2 \cup Malformed

\* what follows the document: nothing, the newline, or the newline and an
\* event line of mpv's
EventLine == <<LB, Str(StrError), COLON, Str(StrError), RB, NL>>

Payloads ==
    {d \o tail : d \in Documents, tail \in {<<>>, <<NL>>, <<NL>> \o EventLine}}

\* a payload as the chunks recv returns: whole, or cut in two
Chunkings(p) ==
    {<<p>>} \cup {<<SubSeq(p, 1, k), RestFrom(p, k + 1)>> : k \in 1..(Len(p) - 1)}

Peers ==
    {[connect |-> "refused", chunks |-> <<>>, end |-> "close"]}
    \cup {[connect |-> "ok", chunks |-> c, end |-> e] :
            c \in UNION {Chunkings(p) : p \in Payloads \ {<<>>}} \cup {<<>>},
            e \in {"close", "silent"}}

IpcInit ==
    /\ ipc_peer \in Peers
    /\ ipc_pc = "start"
    /\ ipc_read = 0
    /\ ipc_response = <<>>
    /\ ipc_ret = 0
    /\ TierIdle
    /\ AppIdle
    /\ FormatIdle
    /\ CookiesIdle
    /\ RequestsIdle
    /\ ChannelIdle

\* lines 84-88: socket(), connect(), sendall(); a refused connection raises
\* inside the try and the handler returns 0.0
IpcConnect ==
    /\ ipc_pc = "start"
    /\ IF ipc_peer.connect = "refused"
       THEN LET r == try_except(Raise("OSError")) IN
            /\ ipc_pc' = IF r.raised THEN "raised" ELSE "returned"
            /\ ipc_ret' = r.val
       ELSE /\ ipc_pc' = "recv"
            /\ ipc_ret' = ipc_ret
    /\ UNCHANGED <<ipc_peer, ipc_read, ipc_response>>
    /\ UNCHANGED <<tierVars, appVars, fmtVars, ckVars, reqVars, chVars>>

\* lines 89-95, one iteration: recv blocks while the peer is silent
IpcRecv ==
    /\ ipc_pc = "recv"
    /\ IF ipc_read < Len(ipc_peer.chunks)
       THEN LET chunk == ipc_peer.chunks[ipc_read + 1] IN
            /\ ipc_read' = ipc_read + 1
            /\ ipc_response' = ipc_response \o chunk
            /\ ipc_pc' = IF ChunkHasNewline(chunk) THEN "parse" ELSE "recv"
       ELSE /\ ipc_peer.end = "close"
            /\ ipc_pc' = "parse"
            /\ UNCHANGED <<ipc_read, ipc_response>>
    /\ UNCHANGED <<ipc_peer, ipc_ret>>
    /\ UNCHANGED <<tierVars, appVars, fmtVars, ckVars, reqVars, chVars>>

\* lines 96-102: close, parse, return the value or, from the handler, 0.0
IpcParse ==
    /\ ipc_pc = "parse"
    /\ LET r == try_except(parse_playback_time(ipc_response)) IN
       /\ ipc_pc' = IF r.raised THEN "raised" ELSE "returned"
       /\ ipc_ret' = r.val
    /\ UNCHANGED <<ipc_peer, ipc_read, ipc_response>>
    /\ UNCHANGED <<tierVars, appVars, fmtVars, ckVars, reqVars, chVars>>

IpcNext == IpcConnect \/ IpcRecv \/ IpcParse

SpecIpc == IpcInit /\ [][IpcNext]_vars

\* the calling thread runs its next statement whenever it has one: the
\* call under weak fairness
SpecIpcFair == IpcInit /\ [][IpcNext]_vars /\ WF_vars(IpcNext)

(***************************************************************************)
(* SpecFormat: the --ytdl-format lookup of launch_mpv_merged               *)
(* (main.py:33-42, 827) for every tier label and two labels outside the    *)
(* enumeration, next to a variant the expression is put to.                *)
(***************************************************************************)
\* the labels a caller can pass: the keys, the empty text of an empty
\* quality box, and a label that is no key
Labels == {ALL_QUALITIES[i] : i \in DOMAIN ALL_QUALITIES} \cup {"", "4k"}

FormatInit ==
    /\ fmt_label \in Labels
    /\ fmt_variant \in TierFormats
    /\ fmt_filter = BestFormat
    /\ fmt_done = FALSE
    /\ TierIdle
    /\ IpcIdle
    /\ AppIdle
    /\ CookiesIdle
    /\ RequestsIdle
    /\ ChannelIdle

\* line 827: mpv_format = FORMAT_MAPPING.get(quality_label, "best")
ApplyFormatOf ==
    /\ ~fmt_done
    /\ fmt_filter' = format_of(fmt_label)
    /\ fmt_done' = TRUE
    /\ UNCHANGED <<fmt_label, fmt_variant>>
    /\ UNCHANGED <<tierVars, ipcVars, appVars, ckVars, reqVars, chVars>>

FormatNext == ApplyFormatOf

SpecFormat == FormatInit /\ [][FormatNext]_vars

(***************************************************************************)
(* SpecCookies: save_cookies_to_file (main.py:174-187) over every list of  *)
(* at most MaxCookies cookies. A text is a sequence of pieces: a tab, a    *)
(* newline, or a run of other characters.                                  *)
(***************************************************************************)
TAB == "\t"
LF == "\n"

\* the cookie dicts page.cookies() can return: a domain with or without
\* the leading dot, the secure flag, a session cookie (expires -1) or no
\* expires key, and a value that is empty, plain, or holds a tab or newline
CookieDomains == {<<".", "d">>, <<"d">>}
CookieValues == {<<>>, <<"v">>, <<"v", TAB, "w">>, <<"v", LF, "w">>}
CookieExpires == {"absent", "-1"}

Cookies ==
    [domain : CookieDomains, secure : BOOLEAN, expires : CookieExpires,
     name : {<<"n">>}, value : CookieValues]

\* line 179: "TRUE" if domain.startswith(".") else "FALSE"
flag_of(domain) ==
    IF domain # <<>> /\ domain[1] = "." THEN <<"TRUE">> ELSE <<"FALSE">>

\* line 181
secure_of(c) == IF c.secure THEN <<"TRUE">> ELSE <<"FALSE">>

\* line 182: str(c.get("expires", 0))
expiry_of(c) == IF c.expires = "absent" THEN <<"0">> ELSE <<c.expires>>

\* "\t".join(fields)
RECURSIVE join(_)
join(fields) ==
    IF fields = <<>> THEN <<>>
    ELSE IF Len(fields) = 1 THEN fields[1]
    ELSE fields[1] \o <<TAB>> \o join(Tail(fields))

\* lines 178-185: the line of one cookie; path is "/" when the key is absent
cookie_line(c) ==
    join(<<c.domain, flag_of(c.domain), <<"/">>, secure_of(c), expiry_of(c),
           c.name, c.value>>) \o <<LF>>

\* lines 177-185
RECURSIVE cookie_lines(_)
cookie_lines(cookies) ==
    IF cookies = <<>> THEN <<>>
    ELSE cookie_line(Head(cookies)) \o cookie_lines(Tail(cookies))

\* save_cookies_to_file: the text of the file it writes
save_cookies_to_file(cookies) ==
    <<"# Netscape HTTP Cookie File", LF>> \o cookie_lines(cookies)

CookiesInit ==
    /\ ck_cookies \in SeqsUpTo(Cookies, MaxCookies)
    /\ ck_file = <<>>
    /\ ck_done = FALSE
    /\ TierIdle
    /\ IpcIdle
    /\ AppIdle
    /\ FormatIdle
    /\ RequestsIdle
    /\ ChannelIdle

SaveCookies ==
    /\ ~ck_done
    /\ ck_file' = save_cookies_to_file(ck_cookies)
    /\ ck_done' = TRUE
    /\ UNCHANGED ck_cookies
    /\ UNCHANGED <<tierVars, ipcVars, appVars, fmtVars, reqVars, chVars>>

CookiesNext == SaveCookies

SpecCookies == CookiesInit /\ [][CookiesNext]_vars

(***************************************************************************)
(* SpecRequests: searches and extractions handed to the pool and their     *)
(* completions applied by the GUI thread (main.py:191-236, 252-257,        *)
(* 401-414, 701-780). Every Worker has a pool thread of its own and its    *)
(* function is one step; what extract_with_fallback does with cookies.txt  *)
(* is in Spec.                                                             *)
(***************************************************************************)
MaxRequests == 3

\* search_field.text().strip()
Queries == {"", "q1", "q2"}

\* an entry of a flat yt-dlp listing; "" stands for an absent url
Entry(url, title) == [url |-> url, title |-> title]

\* the entries ydl.extract_info can return for "ytsearch20:<query>"
EntriesOf(query) ==
    IF query = "q1"
    THEN {<<Entry("u1", "t1"), Entry("", "t0")>>, <<>>}
    ELSE {<<Entry("u2", "t2"), Entry("u1", "t1")>>}

\* lines 205-215: the entries that have a url, in order
RECURSIVE search_results(_)
search_results(entries) ==
    IF entries = <<>> THEN <<>>
    ELSE IF Head(entries).url = "" THEN search_results(Tail(entries))
    ELSE <<[title |-> Head(entries).title, videoId |-> Head(entries).url]>>
         \o search_results(Tail(entries))

\* what a search Worker hands to its finished signal: the list, or the
\* exception caught by Worker.run
SearchResult(tag, list) == [tag |-> tag, list |-> list]

\* search_youtube (main.py:191-217) as the set of its outcomes: the cache
\* it leaves and the value it returns; max_results is 20 in every call
search_youtube(cache, query) ==
    IF query \in DOMAIN cache
    THEN {[cache |-> cache, result |-> SearchResult("results", cache[query])]}
    ELSE {[cache |-> cache_store(cache, query, search_results(e)),
           result |-> SearchResult("results", search_results(e))] :
             e \in EntriesOf(query)}
         \cup {[cache |-> cache, result |-> SearchResult("error", <<>>)]}

\* extract_formats (main.py:221-236) as the set of its outcomes
extract_formats(cache, video_url, cookies_arg) ==
    IF <<video_url, cookies_arg>> \in DOMAIN cache
    THEN {[cache |-> cache, raised |-> FALSE,
           info |-> cache[<<video_url, cookies_arg>>]]}
    ELSE {[cache |-> cache_store(cache, <<video_url, cookies_arg>>, info),
           raised |-> FALSE, info |-> info] : info \in InfosOf(video_url)}
         \cup {[cache |-> cache, raised |-> TRUE, info |-> NoInfo]}

\* the except clause of extract_with_fallback (main.py:731-736)
with_cookies(cache, video_url) ==
    {[cache |-> o.cache,
      result |-> IF o.raised THEN Result("error", NoInfo)
                 ELSE Result("cookies", o.info)] :
        o \in extract_formats(cache, video_url, "cookies.txt")}
    \cup {[cache |-> cache, result |-> Result("error", NoInfo)]}

\* extract_with_fallback (main.py:727-736) as the set of its outcomes
extract_with_fallback(cache, video_url) ==
    {[cache |-> o.cache, result |-> Result("no_cookies", o.info)] :
        o \in {x \in extract_formats(cache, video_url, "None") : ~x.raised}}
    \cup IF \E x \in extract_formats(cache, video_url, "None") : x.raised
         THEN with_cookies(cache, video_url)
         ELSE {}

\* populate_home_grid (main.py:401-414): the old widgets removed, one
\* widget per result, four to a row
populate_home_grid(results) ==
    [i \in 1..Len(results) |->
        [row |-> (i - 1) \div 4, col |-> (i - 1) % 4, video |-> results[i]]]

\* a plausible slip: the new widgets added to those in the grid
on_search_results_appends(grid, result) ==
    IF result.tag = "error"
    THEN [grid |-> grid, tr |-> <<Ev("msg", "Search error", 0)>>]
    ELSE [grid |-> grid \o populate_home_grid(result.list),
          tr |-> <<Ev("msg", "Got results", Len(result.list))>>]

\* on_search_results (main.py:712-718)
on_search_results(grid, result) ==
    IF result.tag = "error"
    THEN [grid |-> grid, tr |-> <<Ev("msg", "Search error", 0)>>]
    ELSE [grid |-> populate_home_grid(result.list),
          tr |-> <<Ev("msg", "Got results", Len(result.list))>>]

\* Worker(fn, arg) with its finished signal connected to `slot`
NewWorker(fn, arg, slot) ==
    [fn |-> fn, arg |-> arg, slot |-> slot, pc |-> "queued"]

\* do_search (main.py:701-710)
RequestSearch ==
    /\ ~gui_hung
    /\ Len(req_workers) < MaxRequests
    /\ \E query \in Queries :
          IF query = ""
          THEN /\ gui_trace' = <<Ev("msg", "No search query.", 0)>>
               /\ UNCHANGED <<req_grid, req_workers>>
          ELSE /\ gui_trace' = <<Ev("msg", "Searching", 0)>>
               /\ req_grid' = populate_home_grid(<<>>)
               /\ req_workers' = Append(req_workers,
                      NewWorker("search_youtube", query, "on_search_results"))
    /\ UNCHANGED <<search_cache, req_signals, req_arrived>>
    /\ UNCHANGED <<workerVars, session, mpv_live, gui_hung, host>>
    /\ UNCHANGED <<tierVars, ipcVars, fmtVars, ckVars, chVars>>

\* start_extraction (main.py:720-725)
RequestExtraction ==
    /\ ~gui_hung
    /\ Len(req_workers) < MaxRequests
    /\ \E url \in Urls :
          req_workers' = Append(req_workers,
              NewWorker("extract_with_fallback", url, "on_extraction_done"))
    /\ gui_trace' = <<Ev("msg", "Extracting info for", 0)>>
    /\ UNCHANGED <<search_cache, req_signals, req_arrived, req_grid>>
    /\ UNCHANGED <<workerVars, session, mpv_live, gui_hung, host>>
    /\ UNCHANGED <<tierVars, ipcVars, fmtVars, ckVars, chVars>>

\* Worker.run (main.py:252-257) of the i-th Worker: the function called
\* and its value, or the exception caught, emitted
RunWorker(i) ==
    /\ req_workers[i].pc = "queued"
    /\ req_workers' = [req_workers EXCEPT ![i].pc = "done"]
    /\ req_arrived' = Append(req_arrived, i)
    /\ IF req_workers[i].fn = "search_youtube"
       THEN /\ \E o \in search_youtube(search_cache, req_workers[i].arg) :
                  /\ search_cache' = o.cache
                  /\ req_signals' = Append(req_signals,
                        [slot |-> req_workers[i].slot, result |-> o.result])
            /\ UNCHANGED extraction_cache
       ELSE /\ \E o \in extract_with_fallback(extraction_cache,
                                              req_workers[i].arg) :
                  /\ extraction_cache' = o.cache
                  /\ req_signals' = Append(req_signals,
                        [slot |-> req_workers[i].slot, result |-> o.result])
            /\ UNCHANGED search_cache
    /\ UNCHANGED <<cookies_file, calls, tasks, signals, started, req_grid>>
    /\ UNCHANGED <<guiVars, tierVars, ipcVars, fmtVars, ckVars, chVars>>

RunWorkers == \E i \in DOMAIN req_workers : RunWorker(i)

\* the event loop runs the slot of the finished signal queued first
DeliverSearch ==
    /\ ~gui_hung
    /\ req_signals # <<>>
    /\ Head(req_signals).slot = "on_search_results"
    /\ req_grid' = on_search_results(req_grid, Head(req_signals).result).grid
    /\ gui_trace' = on_search_results(req_grid, Head(req_signals).result).tr
    /\ req_signals' = Tail(req_signals)
    /\ UNCHANGED <<search_cache, req_workers, req_arrived>>
    /\ UNCHANGED <<workerVars, session, mpv_live, gui_hung, host>>
    /\ UNCHANGED <<tierVars, ipcVars, fmtVars, ckVars, chVars>>

DeliverExtraction ==
    /\ ~gui_hung
    /\ req_signals # <<>>
    /\ Head(req_signals).slot = "on_extraction_done"
    /\ \E peer1 \in PeersNow, peer2 \in PeersNow :
          Apply(on_extraction_done(World(session, mpv_live), host,
                                   Head(req_signals).result, peer1, peer2))
    /\ req_signals' = Tail(req_signals)
    /\ UNCHANGED <<search_cache, req_workers, req_arrived, req_grid>>
    /\ UNCHANGED <<workerVars, host>>
    /\ UNCHANGED <<tierVars, ipcVars, fmtVars, ckVars, chVars>>

RequestsInit ==
    /\ AppIdle
    /\ RequestsIdle
    /\ TierIdle
    /\ IpcIdle
    /\ FormatIdle
    /\ CookiesIdle
    /\ ChannelIdle

RequestsNext ==
    \/ RequestSearch
    \/ RequestExtraction
    \/ RunWorkers
    \/ DeliverSearch
    \/ DeliverExtraction

SpecRequests == RequestsInit /\ [][RequestsNext]_vars

(***************************************************************************)
(* SpecCache: extract_with_fallback called MaxGets times on the two pool   *)
(* threads (main.py:221-257, 720-736), the finished signals left in the    *)
(* queue of the GUI thread.                                                *)
(***************************************************************************)
MaxGets == 3

\* threadpool.start(Worker(self.extract_with_fallback, url)), line 722-724
start_worker(w, url) ==
    /\ started < MaxGets
    /\ w = FirstIdle
    /\ tasks' = [tasks EXCEPT ![w] = [IdleTask EXCEPT !.pc = "anon_lookup",
                                                       !.url = url]]
    /\ started' = started + 1
    /\ UNCHANGED <<extraction_cache, cookies_file, calls, signals>>
    /\ UNCHANGED <<guiVars, tierVars, ipcVars, fmtVars, ckVars, reqVars, chVars>>

StartWorker == \E w \in Workers : start_worker(w, "u1")

CacheInit ==
    /\ extraction_cache = <<>>
    /\ cookies_file \in [exists : BOOLEAN, writes : {0}]
    /\ calls = [ydl |-> [k \in CacheKeys |-> 0], acquire |-> 0]
    /\ tasks = [w \in Workers |-> IdleTask]
    /\ signals = <<>>
    /\ started = 0
    /\ session = InitSession
    /\ mpv_live = {}
    /\ gui_trace = <<>>
    /\ gui_hung = FALSE
    /\ host = LinuxHost
    /\ TierIdle
    /\ IpcIdle
    /\ FormatIdle
    /\ CookiesIdle
    /\ RequestsIdle
    /\ ChannelIdle

CacheNext ==
    \/ StartWorker
    \/ WorkerRun

SpecCache == CacheInit /\ [][CacheNext]_vars

(***************************************************************************)
(* SpecChannel: get_channel_videos (main.py:122-159) called MaxChannelCalls *)
(* times.                                                                  *)
(***************************************************************************)
MaxChannelCalls == 3

\* channel_url: None or empty, or the url of a channel
ChannelUrls == {"", "c1", "c2"}

\* max_results: 20 at the call site of line 625, 1 to reach the break
MaxResults == {1, 20}

ChannelKeys == (ChannelUrls \ {""}) \X MaxResults

\* the entries ydl.extract_info can return for a channel (an exception is
\* the other outcome)
ChannelEntries(channel_url) ==
    IF channel_url = "c1"
    THEN {<<Entry("u1", "t1"), Entry("", "t0"), Entry("u2", "t2")>>, <<>>}
    ELSE {<<Entry("u2", "t2")>>}

\* lines 139-153: the entries that have a url, up to max_results of them
RECURSIVE channel_results(_, _, _)
channel_results(entries, max_results, count) ==
    IF entries = <<>> THEN <<>>
    ELSE IF Head(entries).url = ""
    THEN channel_results(Tail(entries), max_results, count)
    ELSE <<[title |-> Head(entries).title, videoId |-> Head(entries).url]>>
         \o IF count + 1 >= max_results THEN <<>>
            ELSE channel_results(Tail(entries), max_results, count + 1)

\* lines 135-158 after a miss: `results` as the try statement leaves it,
\* stored and returned
listing_done(key, outcome, results) ==
    /\ channel_videos_cache' = cache_store(channel_videos_cache, key, results)
    /\ ch_calls' = [ch_calls EXCEPT
                      ![key].ydl = @ + 1,
                      ![key].failed = IF outcome = "failed" THEN @ + 1 ELSE @]
    /\ ch_last' = ChannelCall(ch_last.n + 1, key, outcome, results)

\* get_channel_videos (main.py:122-159)
get_channel_videos(channel_url, max_results) ==
    IF channel_url = ""
    THEN /\ ch_last' = ChannelCall(ch_last.n + 1, <<"", max_results>>,
                                   "no_url", <<>>)
         /\ UNCHANGED <<channel_videos_cache, ch_calls>>
    ELSE IF <<channel_url, max_results>> \in DOMAIN channel_videos_cache
    THEN /\ ch_last' = ChannelCall(ch_last.n + 1, <<channel_url, max_results>>,
                          "hit",
                          channel_videos_cache[<<channel_url, max_results>>])
         /\ UNCHANGED <<channel_videos_cache, ch_calls>>
    ELSE \/ \E entries \in ChannelEntries(channel_url) :
               listing_done(<<channel_url, max_results>>, "listed",
                            channel_results(entries, max_results, 0))
         \/ listing_done(<<channel_url, max_results>>, "failed", <<>>)

GetChannelVideos ==
    /\ ch_last.n < MaxChannelCalls
    /\ \E channel_url \in ChannelUrls, max_results \in MaxResults :
          get_channel_videos(channel_url, max_results)
    /\ UNCHANGED <<tierVars, ipcVars, appVars, fmtVars, ckVars, reqVars>>

ChannelInit ==
    /\ channel_videos_cache = <<>>
    /\ ch_calls = [k \in ChannelKeys |-> [ydl |-> 0, failed |-> 0]]
    /\ ch_last = ChannelCall(0, <<"", 0>>, "none", <<>>)
    /\ TierIdle
    /\ IpcIdle
    /\ AppIdle
    /\ FormatIdle
    /\ CookiesIdle
    /\ RequestsIdle

ChannelNext == GetChannelVideos

SpecChannel == ChannelInit /\ [][ChannelNext]_vars

(***************************************************************************)
(* Claims about the quality resolver                                       *)
(***************************************************************************)
\* the fixed enumeration of tiers and the membership table of the
\* specification, section 4.1, over a variant's height and frame rate
TierEnumeration ==
    <<"2k", "1080p60", "1080p", "720p60", "720p", "360p", "240p", "144p">>

TierPredicate(t, h, f) ==
    CASE t = "2k" -> h >= 1440
      [] t = "1080p60" -> h >= 1080 /\ f >= 60
      [] t = "1080p" -> h >= 1080
      [] t = "720p60" -> h >= 720 /\ f >= 60
      [] t = "720p" -> 720 <= h /\ h < 1080
      [] t = "360p" -> 360 <= h /\ h < 720
      [] t = "240p" -> 240 <= h /\ h < 360
      [] t = "144p" -> 144 <= h /\ h < 240
      [] OTHER -> FALSE

\* the variants of an info: height and fps with 0 for unknown
Variants(info) ==
    {[height |-> OrZero(info.formats[i].height),
      fps |-> OrZero(info.formats[i].fps)] : i \in DOMAIN info.formats}

SatisfiedTiers(info) ==
    {TierEnumeration[i] : i \in
        {j \in DOMAIN TierEnumeration :
            \E v \in Variants(info) :
                TierPredicate(TierEnumeration[j], v.height, v.fps)}}

PositionIn(s, x) == CHOOSE i \in DOMAIN s : s[i] = x

\* s lists elements of `order`, each at most once, in the order of `order`
IsOrderedSubsequence(s, order) ==
    /\ \A i \in DOMAIN s : \E j \in DOMAIN order : order[j] = s[i]
    /\ \A i, j \in DOMAIN s :
          i < j => PositionIn(order, s[i]) < PositionIn(order, s[j])

Range(s) == {s[i] : i \in DOMAIN s}

\* C1: when some tier is satisfied, available_buckets returns a
\* duplicate-free subsequence of the fixed tier order that holds a tier
\* exactly when at least one variant satisfies that tier's predicate.
C1_TiersMatchTable ==
    (tier_done /\ SatisfiedTiers(tier_info) # {}) =>
        /\ IsOrderedSubsequence(tier_result, TierEnumeration)
        /\ Range(tier_result) = SatisfiedTiers(tier_info)

C1_Witness ==
    /\ tier_done
    /\ Len(tier_info.formats) = 2
    /\ Cardinality(SatisfiedTiers(tier_info)) >= 3

\* C2: when no variant satisfies any tier predicate (no variants, or only
\* heights below 144 or unknown), the result is exactly <<"360p">>.
C2_FallbackIs360p ==
    (tier_done /\ SatisfiedTiers(tier_info) = {}) =>
        tier_result = <<"360p">>

C2_Witness ==
    /\ tier_done
    /\ Len(tier_info.formats) = 2
    /\ \A i \in DOMAIN tier_info.formats :
          OrZero(tier_info.formats[i].height) < 144
    /\ tier_result = <<"360p">>

C3_Example ==
    <<[height |-> 1080, fps |-> 30], [height |-> 720, fps |-> 60]>>

\* C3 as stated: for the variants {1080, 30} and {720, 60} the result is
\* exactly <<"1080p", "720p60">>.
C3_AsStated ==
    (tier_done /\ tier_info.formats = C3_Example) =>
        tier_result = <<"1080p", "720p60">>

\* C3 amended: for the variants {1080, 30} and {720, 60} the result is
\* <<"1080p", "720p60", "720p">>: 1080p60 is absent, and 720p is present
\* because the variant of height 720 satisfies 720 <= h < 1080.
C3_ExampleResult ==
    (tier_done /\ tier_info.formats = C3_Example) =>
        tier_result = <<"1080p", "720p60", "720p">>

C3_Witness == tier_done /\ tier_info.formats = C3_Example

(***************************************************************************)
(* Claims about the extraction cache and the cookie fallback               *)
(***************************************************************************)
\* the key of the extract_formats call worker w is in
C4_KeyOf(w) ==
    <<tasks[w].url,
      IF tasks[w].pc \in {"anon_lookup", "anon_extract"}
      THEN "None" ELSE "cookies.txt">>

\* w takes the cache test of a call, or the producer of one
C4_Get(w) ==
    tasks[w].pc \in {"anon_lookup", "cred_lookup"} /\ tasks'[w] # tasks[w]

C4_Produce(w) ==
    tasks[w].pc \in {"anon_extract", "cred_extract"} /\ tasks'[w] # tasks[w]

C4_LastEvent(t) == t.events[Len(t.events)].e

\* C4: a get whose key is stored returns the stored value and leaves the
\* producer's call count and the cache alone; a get whose key is not stored
\* goes on to the producer; a producer call counts once, stores what it
\* returns on success and stores nothing on failure.
C4_CacheContract ==
    [][\A w \in Workers :
         /\ (C4_Get(w) /\ C4_KeyOf(w) \in DOMAIN extraction_cache) =>
               /\ tasks'[w].pc = "emit"
               /\ tasks'[w].result.info = extraction_cache[C4_KeyOf(w)]
               /\ calls' = calls
               /\ extraction_cache' = extraction_cache
         /\ (C4_Get(w) /\ C4_KeyOf(w) \notin DOMAIN extraction_cache) =>
               /\ tasks'[w].pc \in {"anon_extract", "cred_extract"}
               /\ calls' = calls
         /\ C4_Produce(w) =>
               /\ calls'.ydl[C4_KeyOf(w)] = calls.ydl[C4_KeyOf(w)] + 1
               /\ IF C4_LastEvent(tasks'[w]) \in {"no_cookies_fail", "cookies_fail"}
                  THEN extraction_cache' = extraction_cache
                  ELSE /\ C4_KeyOf(w) \in DOMAIN extraction_cache'
                       /\ extraction_cache'[C4_KeyOf(w)] = tasks'[w].result.info
      ]_vars

\* a call answered from the cache after exactly one producer call with its
\* key, while the other key of the url failed twice and is not stored
C4_Witness ==
    \E w \in Workers :
       /\ tasks[w].pc = "emit"
       /\ C4_LastEvent(tasks[w]) = "cookies_hit"
       /\ tasks[w].result.info = extraction_cache[<<tasks[w].url, "cookies.txt">>]
       /\ calls.ydl[<<tasks[w].url, "cookies.txt">>] = 1
       /\ calls.ydl[<<tasks[w].url, "None">>] = 2
       /\ <<tasks[w].url, "None">> \notin DOMAIN extraction_cache

\* the steps of a call so far, by name
C5_Names(t) == [i \in DOMAIN t.events |-> t.events[i].e]

C5_Count(t, S) == Cardinality({i \in DOMAIN t.events : t.events[i].e \in S})

C5_Has(t, e) == C5_Count(t, {e}) > 0

\* C5: a call of extract_with_fallback whose anonymous extraction failed and
\* whose credentialed extraction succeeded returns ("cookies", info) with
\* the info the credentialed extraction gave, and has acquired cookies once
\* if cookies.txt was absent when it looked and never if it was there.
C5_CredentialedResult ==
    \A w \in Workers :
       LET t == tasks[w] IN
       (/\ t.pc = "emit"
        /\ C5_Has(t, "no_cookies_fail")
        /\ C5_Has(t, "cookies_call") \/ C5_Has(t, "cookies_hit")) =>
          /\ t.result = Result("cookies", t.events[Len(t.events)].info)
          /\ ~t.result.info.none
          /\ t.result.info \in InfosOf(t.url)
          /\ C5_Has(t, "file_absent") # C5_Has(t, "file_present")
          /\ C5_Count(t, {"acquire", "acquire_fail"}) =
                IF C5_Has(t, "file_absent") THEN 1 ELSE 0

\* two calls about to return a credentialed result: one found no cookies.txt
\* and acquired, the other found the file
C5_Witness ==
    \E w1 \in Workers, w2 \in Workers :
       /\ tasks[w1].pc = "emit" /\ tasks[w2].pc = "emit"
       /\ C5_Names(tasks[w1]) =
             <<"no_cookies_fail", "file_absent", "acquire", "save", "cookies_call">>
       /\ tasks[w1].result.tag = "cookies"
       /\ Len(tasks[w2].events) = 3
       /\ SubSeq(C5_Names(tasks[w2]), 1, 2) = <<"no_cookies_fail", "file_present">>
       /\ tasks[w2].result.tag = "cookies"
       /\ calls.acquire = 1

C6_Anon == {"no_cookies_hit", "no_cookies_call", "no_cookies_fail"}
C6_Acquisition == {"acquire", "acquire_fail"}
C6_Cred == {"cookies_hit", "cookies_call", "cookies_fail"}

C6_At(t, S) == {i \in DOMAIN t.events : t.events[i].e \in S}

C6_SumYdl(arg) ==
    LET RECURSIVE Sum(_)
        Sum(U) == IF U = {} THEN 0
                  ELSE LET u == CHOOSE x \in U : TRUE
                       IN calls.ydl[<<u, arg>>] + Sum(U \ {u})
    IN Sum(Urls)

\* C6: a call of extract_with_fallback makes at most one anonymous
\* extraction, one acquisition and one credentialed extraction, in that
\* order; a failed acquisition ends the call with an error and without a
\* credentialed extraction; a failed credentialed extraction ends the call
\* with an error. Over all calls, no kind of attempt was made more often
\* than calls were started.
C6_SingleFallback ==
    /\ \A w \in Workers :
          LET t == tasks[w] IN
          /\ Cardinality(C6_At(t, C6_Anon)) <= 1
          /\ Cardinality(C6_At(t, C6_Acquisition)) <= 1
          /\ Cardinality(C6_At(t, C6_Cred)) <= 1
          /\ \A i \in C6_At(t, C6_Anon) :
                \A j \in C6_At(t, C6_Acquisition \cup C6_Cred) : i < j
          /\ \A i \in C6_At(t, C6_Acquisition) : \A j \in C6_At(t, C6_Cred) : i < j
          /\ C5_Has(t, "acquire_fail") =>
                /\ C6_At(t, C6_Cred) = {}
                /\ t.pc = "emit"
                /\ t.result = Result("error", NoInfo)
          /\ C5_Has(t, "cookies_fail") =>
                /\ C4_LastEvent(t) = "cookies_fail"
                /\ t.pc = "emit"
                /\ t.result = Result("error", NoInfo)
    /\ C6_SumYdl("None") <= started
    /\ calls.acquire <= started
    /\ C6_SumYdl("cookies.txt") <= started

\* one call ends on a failed credentialed extraction while another ends on
\* a failed acquisition
C6_Witness ==
    \E w1 \in Workers, w2 \in Workers :
       /\ C5_Names(tasks[w1]) =
             <<"no_cookies_fail", "file_absent", "acquire", "save", "cookies_fail">>
       /\ tasks[w1].result.tag = "error"
       /\ C5_Names(tasks[w2]) = <<"no_cookies_fail", "file_absent", "acquire_fail">>
       /\ tasks[w2].result.tag = "error"
       /\ calls.acquire = 2

(***************************************************************************)
(* Claims about the playback session                                       *)
(***************************************************************************)
\* the step hands a Worker to the pool, or runs a pool thread
C7_Requested == started' # started \/ tasks' # tasks

\* the step delivers a failed Worker's exception to on_extraction_done
C7_ErrorDelivered ==
    /\ signals # <<>>
    /\ Head(signals).tag = "error"
    /\ signals' = Tail(signals)

C7_PlayerCalls(tr) ==
    {i \in DOMAIN tr : tr[i].op \in {"kill", "launch", "start", "query"}}

\* C7: requesting an extraction, running it on the pool and delivering its
\* error leave every field of the session and every mpv process as they
\* were; the handler of the error kills and starts nothing.
C7_ErrorLeavesSession ==
    [][(C7_Requested \/ C7_ErrorDelivered) =>
          /\ session' = session
          /\ mpv_live' = mpv_live
          /\ gui_hung' = gui_hung
          /\ C7_ErrorDelivered =>
                gui_trace' = <<Ev("msg", "Extraction error", 0)>>
      ]_vars

\* an error was delivered while a video was playing: the player is alive
C7_Witness ==
    /\ gui_trace = <<Ev("msg", "Extraction error", 0)>>
    /\ ~session.current_info.none
    /\ session.player_process # 0
    /\ \E p \in mpv_live : p.id = session.player_process

\* the step is the user's choice of another entry of the quality box while
\* a merged player was started, and the slot returned
C8_Selected ==
    /\ session'.combo_index # session.combo_index
    /\ session'.combo_items = session.combo_items
    /\ signals' = signals
    /\ session.player_process # 0
    /\ session.current_video_url # ""
    /\ ~gui_hung'

\* the values the query can return against the peers of the application
C8_Offsets == {get_current_playback_time(p).val : p \in AppPeers}

\* C8: the slot queries once and relaunches: launch_mpv_merged is called
\* with the label now selected and the value the query returned, the new
\* player plays the format of that label from that value, and the value is
\* 0 when nothing listens on /tmp/mpvsocket.
C8_RelaunchAtOffset ==
    [][C8_Selected =>
         \E v \in C8_Offsets :
            /\ Len(gui_trace') = 4
            /\ gui_trace'[1] = Ev("query", "", v)
            /\ gui_trace'[2] = Ev("msg", "Switching quality to", v)
            /\ gui_trace'[3].op \in {"kill", "msg"}
            /\ gui_trace'[4] = Ev("launch", currentText(session'), v)
            /\ host.mpv_installed =>
                 \E p \in mpv_live' :
                    /\ p.id = session'.player_process
                    /\ p.role = "merged"
                    /\ p.url = session.current_video_url
                    /\ p.format = format_of(currentText(session'))
                    /\ p.start = v
            /\ (host.os_type = "Windows"
                  \/ ~\E p \in mpv_live : p.ipc = "/tmp/mpvsocket") => v = 0
      ]_vars

\* a switch to 720p relaunched at the position the player reported
C8_Witness ==
    /\ gui_trace = <<Ev("query", "", 173), Ev("msg", "Switching quality to", 173),
                     Ev("kill", "", 0), Ev("launch", "720p", 173)>>
    /\ \E p \in mpv_live :
          /\ p.id = session.player_process
          /\ p.format = FORMAT_MAPPING["720p"]
          /\ p.start = 173

(***************************************************************************)
(* Claims about the position query                                         *)
(***************************************************************************)
\* the bytes the call read, without surrounding whitespace
C9_Document == StripWs(ipc_response)

\* doc is a well-formed JSON object whose "data" member is the atom a (of
\* two "data" members the later one counts)
C9_HoldsData(doc, a) ==
    \/ doc = Obj1(Str(StrData), <<a>>)
    \/ \E k1 \in KeyToks, v1 \in ValueTexts :
          doc = Obj2(k1, v1, Str(StrData), <<a>>)
    \/ \E v2 \in ValueTexts :
          doc = Obj2(Str(StrData), <<a>>, Str(StrError), v2)

C9_Numbers == {425, 173}

\* C9 as stated: no error propagates; the call returns the number held by
\* "data" when the response is a well-formed object with a numeric "data",
\* and 0.0 in every other case.
C9_AsStated ==
    /\ ipc_pc # "raised"
    /\ ipc_pc = "returned" =>
          IF \E n \in C9_Numbers : C9_HoldsData(C9_Document, Num(n))
          THEN \A n \in C9_Numbers :
                  C9_HoldsData(C9_Document, Num(n)) => ipc_ret = n
          ELSE ipc_ret = 0

\* the "data" values float() converts, with the result in tenths: a number,
\* true (1.0) and a string that spells a number ("42.5")
C9_Convertible == {Num(425), Num(173), TRUE_T, Str(StrNumeric)}

C9_Converted(a) ==
    IF a.t = "num" THEN a.v ELSE IF a.t = "true" THEN 10 ELSE 425

\* C9 amended: no error propagates; the call returns float(data) when the
\* response is a well-formed object whose "data" is a number, a boolean or
\* a string spelling a number, and 0.0 in every other case.
C9_OffsetOrZero ==
    /\ ipc_pc # "raised"
    /\ ipc_pc = "returned" =>
          IF \E a \in C9_Convertible : C9_HoldsData(C9_Document, a)
          THEN \A a \in C9_Convertible :
                  C9_HoldsData(C9_Document, a) => ipc_ret = C9_Converted(a)
          ELSE ipc_ret = 0

C9_Witness ==
    /\ ipc_pc = "returned"
    /\ ipc_read = 2
    /\ C9_HoldsData(C9_Document, Num(425))
    /\ ipc_ret = 425

\* the stepwise call and the operator used by the handlers agree
IpcAgrees ==
    LET whole == get_current_playback_time(ipc_peer) IN
    /\ ipc_pc = "returned" => (~whole.blocked /\ whole.val = ipc_ret)
    /\ (ipc_pc = "recv" /\ ipc_read = Len(ipc_peer.chunks)
          /\ ipc_peer.end = "silent") => whole.blocked

(***************************************************************************)
(* Claims about separate streams                                           *)
(***************************************************************************)
\* a video-only variant has a video codec and no audio codec; an audio-only
\* variant has an audio codec and no video codec
C10_HasVideoOnly(formats) ==
    \E i \in DOMAIN formats :
       formats[i].vcodec # "none" /\ formats[i].acodec = "none"

C10_HasAudioOnly(formats) ==
    \E i \in DOMAIN formats :
       formats[i].acodec # "none" /\ formats[i].vcodec = "none"

C10_Notice == Ev("msg", "No separate streams found; fallback merged.", 0)

\* the last handler was watch_separate_streams with an info in hand
C10_Watched ==
    /\ gui_trace # <<>>
    /\ \/ gui_trace[1] = C10_Notice
       \/ \E i \in DOMAIN gui_trace : gui_trace[i].op = "start"

\* C10 as stated: when the formats of the current info lack a video-only or
\* an audio-only variant, watch_separate_streams starts no separate process,
\* reports the fallback and performs launch_mpv_merged; separate processes
\* are started only when both kinds are present.
C10_AsStated ==
    (C10_Watched
       /\ ~(C10_HasVideoOnly(session.current_info.formats)
              /\ C10_HasAudioOnly(session.current_info.formats))) =>
       /\ gui_trace[1] = C10_Notice
       /\ \A i \in DOMAIN gui_trace : gui_trace[i].op # "start"
       /\ \A p \in mpv_live : p.role = "merged"
       /\ \/ gui_trace[Len(gui_trace)].op = "launch"
          \/ gui_trace[Len(gui_trace)] = Ev("msg", "No URL to play.", 0)

(***************************************************************************)
(* Claims about launches, the detach flag and the GUI thread               *)
(***************************************************************************)
\* the step is watch_separate_streams with an info in hand
C11_Watch ==
    /\ tasks' = tasks /\ signals' = signals /\ started' = started
    /\ gui_trace' # <<>>
    /\ \/ gui_trace'[1] = C10_Notice
       \/ \E i \in DOMAIN gui_trace' : gui_trace'[i].op = "start"

\* a merged player is running
C11_Playing ==
    \E p \in mpv_live : p.role = "merged" /\ p.id = session.player_process

\* the positions a running player reports when asked
C11_Reached ==
    {get_current_playback_time(p).val :
        p \in {q \in AppPeers : q.connect = "ok" /\ q.end = "close"}}

\* C11 as stated: when the mode changes while a merged player runs, every
\* process the change starts begins at the position the player had reached.
C11_AsStated ==
    [][(C11_Watch /\ C11_Playing) =>
          \A p \in mpv_live' \ mpv_live : p.start \in C11_Reached
      ]_vars

\* C12 as stated: the live mpv processes all belong to the most recent
\* launch: one merged player, or one video and one audio player.
C12_AsStated ==
    \/ mpv_live = {}
    \/ \E p \in mpv_live : mpv_live = {p}
    \/ \E v \in mpv_live, a \in mpv_live :
          /\ v.role = "video" /\ a.role = "audio"
          /\ mpv_live = {v, a}

\* the step is toggle_detach, the only writer of is_detached
C13_Toggled == session'.is_detached # session.is_detached

\* a session is active, as toggle_detach tests it
C13_Active == session.current_video_url # "" /\ session.player_process # 0

C13_FlipLine ==
    Ev("msg", IF session.is_detached THEN "Now in embedded mode."
              ELSE "Now in detached mode.", 0)

\* C13: toggle_detach flips the flag. With an active session it queries the
\* position and, once the query returned, relaunches the merged player at
\* the selected tier from the value returned, with --wid exactly when the
\* new flag is "embedded". Without one it changes nothing but the flag.
C13_ToggleRelaunches ==
    [][C13_Toggled =>
         /\ session'.is_detached = ~session.is_detached
         /\ gui_trace'[1] = C13_FlipLine
         /\ (C13_Active /\ ~gui_hung') =>
               \E v \in C8_Offsets :
                  /\ Len(gui_trace') = 4
                  /\ gui_trace'[2] = Ev("query", "", v)
                  /\ gui_trace'[3].op \in {"kill", "msg"}
                  /\ gui_trace'[4] = Ev("launch", currentText(session), v)
                  /\ session'.combo_index = session.combo_index
                  /\ host.mpv_installed =>
                       \E p \in mpv_live' :
                          /\ p.id = session'.player_process
                          /\ p.role = "merged"
                          /\ p.format = format_of(currentText(session))
                          /\ p.start = v
                          /\ p.wid = ~session'.is_detached
         /\ ~C13_Active =>
               /\ session' = [session EXCEPT !.is_detached = ~@]
               /\ mpv_live' = mpv_live
               /\ gui_trace' = <<C13_FlipLine>>
               /\ ~gui_hung'
      ]_vars

\* a toggle to detached mode relaunched the player outside the widget at
\* the position it reported
C13_Witness ==
    /\ session.is_detached
    /\ Len(gui_trace) = 4
    /\ gui_trace[1] = Ev("msg", "Now in detached mode.", 0)
    /\ gui_trace[2] = Ev("query", "", 173)
    /\ \E p \in mpv_live :
          p.id = session.player_process /\ p.start = 173 /\ ~p.wid

\* C14 as stated: on a host where mpv cannot be started no launch leaves a
\* process handle behind.
C14_AsStated ==
    ~host.mpv_installed =>
       /\ session.player_process = 0
       /\ session.video_process = 0
       /\ session.audio_process = 0

\* C16 as stated: no handler of the GUI thread queries the control socket
\* or fetches from the network itself, and none is stuck in such a call.
C16_AsStated ==
    /\ ~gui_hung
    /\ \A i \in DOMAIN gui_trace :
          gui_trace[i].op \notin {"query", "query_blocked", "requests.get"}

\* C18 as stated: every call of get_current_playback_time ends, also against
\* a peer that accepted the connection and neither answers nor closes.
C18_AsStated == (ipc_pc = "start") ~> (ipc_pc = "returned")

(***************************************************************************)
(* Claims about the format filter and the cookie file                      *)
(***************************************************************************)
\* a format passes [height>=a][height<b][fps>=c] when each comparison that
\* is there holds; a format without the field fails the comparison
C19_Accepts(filter, v) ==
    \/ filter.best
    \/ /\ filter.height_ge # None => (v.height # None /\ v.height >= filter.height_ge)
       /\ filter.height_lt # None => (v.height # None /\ v.height < filter.height_lt)
       /\ filter.fps_ge # None => (v.fps # None /\ v.fps >= filter.fps_ge)

C19_IsTier(label) == \E i \in DOMAIN TierEnumeration : TierEnumeration[i] = label

RECURSIVE C20_Split(_, _, _)
C20_Split(text, sep, cur) ==
    IF text = <<>> THEN <<cur>>
    ELSE IF Head(text) = sep
         THEN <<cur>> \o C20_Split(Tail(text), sep, <<>>)
         ELSE C20_Split(Tail(text), sep, Append(cur, Head(text)))

\* the lines of the file: what stands before each newline
C20_Lines(text) ==
    LET parts == C20_Split(text, LF, <<>>)
    IN SubSeq(parts, 1, Len(parts) - 1)

C20_Entries(text) ==
    LET lines == C20_Lines(text)
    IN [i \in 1..(Len(lines) - 1) |-> C20_Split(lines[i + 1], TAB, <<>>)]

C20_Flags == {<<"TRUE">>, <<"FALSE">>}

\* C20 as stated: the file read back as a header line and lines of seven
\* tab-separated fields gives the (domain, name, value) of every cookie, in
\* order, with both flags TRUE or FALSE.
C20_AsStated ==
    ck_done =>
       LET entries == C20_Entries(ck_file) IN
       /\ C20_Lines(ck_file)[1] = <<"# Netscape HTTP Cookie File">>
       /\ Len(entries) = Len(ck_cookies)
       /\ \A i \in DOMAIN entries :
             /\ Len(entries[i]) = 7
             /\ entries[i][1] = ck_cookies[i].domain
             /\ entries[i][6] = ck_cookies[i].name
             /\ entries[i][7] = ck_cookies[i].value
             /\ entries[i][2] \in C20_Flags
             /\ entries[i][4] \in C20_Flags

(***************************************************************************)
(* Claims about the pool workers                                           *)
(***************************************************************************)
\* the step is a pool thread's
C15_WorkerStepped == tasks' # tasks /\ started' = started

\* C15: a step of a pool thread writes no field of the session and touches
\* no player, and what it hands to the GUI thread is its result, appended
\* to the queue of finished signals; the session, the players and the
\* console change only in steps of the GUI thread.
C15_OnlyGuiWritesSession ==
    [][/\ C15_WorkerStepped =>
            /\ session' = session
            /\ mpv_live' = mpv_live
            /\ gui_trace' = gui_trace
            /\ gui_hung' = gui_hung
            /\ \/ signals' = signals
               \/ \E w \in Workers : signals' = Append(signals, tasks[w].result)
       /\ (session' # session \/ mpv_live' # mpv_live) =>
            /\ ~C15_WorkerStepped
            /\ extraction_cache' = extraction_cache
            /\ cookies_file' = cookies_file
      ]_vars

\* a worker has handed over an info while a video of an earlier extraction
\* plays: the session still holds the earlier info
C15_Witness ==
    /\ signals # <<>>
    /\ Head(signals).tag # "error"
    /\ ~session.current_info.none
    /\ Head(signals).info # session.current_info
    /\ mpv_live # {}

\* the task of w ended by raising: its last step is a failed acquisition
\* or a failed credentialed extraction
C17_Raised(t) ==
    t.events # <<>> /\ C4_LastEvent(t) \in {"acquire_fail", "cookies_fail"}

\* C17: a pool thread that runs a task gets to the end of Worker.run, and
\* the step that ends the task emits one finished signal, carrying the
\* exception when the task raised and the value it returned otherwise; no
\* other step of a pool thread emits.
C17_OneCompletion ==
    /\ \A w \in Workers : (tasks[w].pc # "idle") ~> (tasks[w].pc = "idle")
    /\ [][\A w \in Workers :
            /\ (tasks[w].pc # "idle" /\ tasks'[w].pc = "idle") =>
                  /\ signals' = Append(signals, tasks[w].result)
                  /\ tasks[w].result.tag = "error" <=> C17_Raised(tasks[w])
                  /\ tasks[w].result.tag # "error" =>
                        /\ tasks[w].result.tag \in {"no_cookies", "cookies"}
                        /\ tasks[w].result.info =
                              tasks[w].events[Len(tasks[w].events)].info
                        /\ ~tasks[w].result.info.none
            /\ (tasks'[w] # tasks[w] /\ tasks'[w].pc # "idle") =>
                  signals' = signals
        ]_vars

\* both kinds of completion are queued: an exception and a value
C17_Witness ==
    /\ Len(signals) = 2
    /\ signals[1].tag = "error"
    /\ signals[2].tag = "cookies"
    /\ \A w \in Workers : tasks[w].pc = "idle"

(***************************************************************************)
(* Claims about the completion of an extraction                            *)
(***************************************************************************)
\* the step delivers a successful Worker's result to on_extraction_done,
\* the info names a url and the handler returned
C21_Delivered ==
    /\ signals # <<>>
    /\ Head(signals).tag # "error"
    /\ signals' = Tail(signals)
    /\ video_url_of(Head(signals).info) # ""
    /\ ~gui_hung'

\* the calls of launch_mpv_merged a handler made, in order
C21_Launches(tr) == SelectSeq(tr, LAMBDA e : e.op = "launch")

\* C21 as stated: the handler of a successful extraction launches the
\* player once, at the first available tier from offset 0, also when a
\* player of an earlier video is recorded; refilling the quality box
\* launches nothing.
C21_AsStated ==
    [][C21_Delivered =>
          C21_Launches(gui_trace') =
             <<Ev("launch", session'.qualities_available[1], 0)>>
      ]_vars

(***************************************************************************)
(* Claims about requests in flight                                         *)
(***************************************************************************)
\* the step runs the slot of the finished signal queued first
C22_Delivered == Len(req_signals') < Len(req_signals)

\* C22: a completion is applied when it arrives, whatever was requested
\* since: a successful extraction becomes the session's video and a
\* successful search the contents of the grid, an error changes neither,
\* and no other step writes the session's video or fills the grid. So the
\* session and the grid show the completion that arrived last.
C22_AppliedOnArrival ==
    [][IF C22_Delivered
       THEN LET d == Head(req_signals) IN
            /\ (d.slot = "on_extraction_done" /\ d.result.tag # "error") =>
                  /\ session'.current_info = d.result.info
                  /\ session'.current_video_url = video_url_of(d.result.info)
                  /\ req_grid' = req_grid
            /\ (d.slot = "on_search_results" /\ d.result.tag # "error") =>
                  /\ req_grid' = populate_home_grid(d.result.list)
                  /\ session' = session
            /\ d.result.tag = "error" =>
                  /\ session' = session
                  /\ req_grid' = req_grid
       ELSE /\ session' = session
            /\ req_grid' \in {req_grid, <<>>}
      ]_vars

\* extractions of two videos were requested, the second completed first and
\* was applied, then the first completed: the session shows the first
C22_Witness ==
    /\ Len(req_workers) = 2
    /\ req_workers[1].fn = "extract_with_fallback"
    /\ req_workers[2].fn = "extract_with_fallback"
    /\ req_workers[1].arg # req_workers[2].arg
    /\ req_arrived = <<2, 1>>
    /\ req_signals = <<>>
    /\ \E c \in CookieArgs :
          <<req_workers[2].arg, c>> \in DOMAIN extraction_cache
    /\ session.current_video_url = req_workers[1].arg
    /\ \E p \in mpv_live : p.url = req_workers[1].arg

\* the same for two searches: the grid shows the results of the first
C22_SearchWitness ==
    /\ Len(req_workers) = 2
    /\ req_workers[1].fn = "search_youtube"
    /\ req_workers[2].fn = "search_youtube"
    /\ req_workers[1].arg = "q2" /\ req_workers[2].arg = "q1"
    /\ req_arrived = <<2, 1>>
    /\ req_signals = <<>>
    /\ "q1" \in DOMAIN search_cache
    /\ Len(search_cache["q1"]) = 1
    /\ req_grid = populate_home_grid(search_cache["q2"])

\* the cache test of the next call with key k would miss, or a call that
\* missed has its producer call still to make
C23_Open(k) ==
    \/ k \notin DOMAIN extraction_cache
    \/ \E w \in Workers :
          /\ tasks[w].pc \in {"anon_extract", "cred_extract"}
          /\ C4_KeyOf(w) = k

\* C23: a producer call that succeeds stores its value over what another
\* call stored meanwhile, and once a key is stored and every call that
\* missed it has made its producer call, the key stays so: its value and
\* its producer count change no more, every later get being a hit.
C23_LastWriteThenHits ==
    [][/\ \A w \in Workers :
            (C4_Produce(w) /\ tasks'[w].pc = "emit"
               /\ tasks'[w].result.tag # "error") =>
                  extraction_cache'[C4_KeyOf(w)] = tasks'[w].result.info
       /\ \A k \in CacheKeys :
            ~C23_Open(k) =>
               /\ ~C23_Open(k)'
               /\ extraction_cache'[k] = extraction_cache[k]
               /\ calls'.ydl[k] = calls.ydl[k]
               /\ \A w \in Workers :
                     (C4_Get(w) /\ C4_KeyOf(w) = k) =>
                        /\ tasks'[w].pc = "emit"
                        /\ tasks'[w].result.info = extraction_cache[k]
      ]_vars

\* two calls missed the same key together and both producer calls
\* succeeded, with different values; a third call then hit and got the
\* value stored last
C23_Witness ==
    /\ calls.ydl[<<"u1", "None">>] = 2
    /\ Len(signals) = 2
    /\ signals[1].tag = "no_cookies" /\ signals[2].tag = "no_cookies"
    /\ signals[1].info # signals[2].info
    /\ \E w \in Workers :
          /\ tasks[w].pc = "emit"
          /\ C4_LastEvent(tasks[w]) = "no_cookies_hit"
          /\ tasks[w].result.info = extraction_cache[<<"u1", "None">>]

(***************************************************************************)
(* Claims about cookies.txt                                                *)
(***************************************************************************)
\* the step is taken by the call running on w
C24_Steps(w) == tasks'[w] # tasks[w]

\* the call on w has not yet tested for cookies.txt, or w is free for a
\* call still to start
C24_BeforeCheck(w) ==
    tasks[w].pc \in {"idle", "anon_lookup", "anon_extract", "check_file"}

\* C24: no step deletes cookies.txt; while it exists, a call that has not
\* yet tested for it (so every call that starts from then on) takes no step
\* that acquires cookies or writes the file and goes from the test to the
\* credentialed extraction, whose success or failure ends the call with the
\* file as it was.
C24_FileKept ==
    [][/\ cookies_file.exists => cookies_file'.exists
       /\ \A w \in Workers :
            /\ (C24_Steps(w) /\ cookies_file.exists /\ C24_BeforeCheck(w)) =>
                  /\ tasks'[w].pc \notin {"acquire", "save"}
                  /\ tasks[w].pc = "check_file" => tasks'[w].pc = "cred_lookup"
                  /\ cookies_file' = cookies_file
                  /\ calls'.acquire = calls.acquire
            /\ (C24_Steps(w)
                  /\ tasks[w].pc \in {"cred_lookup", "cred_extract", "emit"}) =>
                  /\ tasks'[w].pc \in {"cred_extract", "emit", "idle"}
                  /\ cookies_file' = cookies_file
                  /\ calls'.acquire = calls.acquire
      ]_vars

\* with cookies.txt left by an earlier run, one call's credentialed
\* extraction failed and another's succeeded: nothing was acquired and the
\* file was not written
C24_Witness ==
    /\ cookies_file = [exists |-> TRUE, writes |-> 0]
    /\ calls.acquire = 0
    /\ \E w \in Workers :
          /\ tasks[w].pc = "emit"
          /\ C5_Names(tasks[w]) =
                <<"no_cookies_fail", "file_present", "cookies_fail">>
    /\ \E i \in DOMAIN signals : signals[i].tag = "cookies"

\* C26 as stated: with two calls of extract_with_fallback and no
\* cookies.txt at the start, the file is written at most once (a write
\* follows an acquisition: two writes are two acquisitions).
C26_AsStated == cookies_file.writes <= 1

(***************************************************************************)
(* Claims about the process handles and the sync timer                     *)
(***************************************************************************)
\* mpv can be started and kill_mpv has a branch for the host
C25_Supported ==
    host.mpv_installed /\ host.os_type \in {"Windows", "Linux", "Darwin"}

C25_MergedPlayback ==
    \E p \in mpv_live :
       /\ mpv_live = {p}
       /\ p.role = "merged"
       /\ p.id = session.player_process

C25_SeparatePlayback ==
    \E v \in mpv_live, a \in mpv_live :
       /\ mpv_live = {v, a}
       /\ v.role = "video" /\ v.id = session.video_process
       /\ a.role = "audio" /\ a.id = session.audio_process

\* C25 as stated: player_process is set exactly in merged playback,
\* video_process and audio_process exactly in separate playback, and a
\* handle that is set is the handle of a live process.
C25_AsStated ==
    C25_Supported =>
       /\ session.player_process # 0 <=> C25_MergedPlayback
       /\ (session.video_process # 0 /\ session.audio_process # 0)
             <=> C25_SeparatePlayback
       /\ \A f \in {"player_process", "video_process", "audio_process"} :
             session[f] # 0 => \E p \in mpv_live : p.id = session[f]

\* C27 as stated: sync_timer runs, and check_sync fires, only while the
\* video and the audio player of watch_separate_streams are the live
\* processes.
C27_AsStated ==
    /\ (C25_Supported /\ session.sync_timer) => C25_SeparatePlayback
    /\ (C25_Supported /\ gui_trace = <<Ev("msg", "Sync check (stub).", 0)>>)
          => C25_SeparatePlayback

(***************************************************************************)
(* Claims about the channel listing                                        *)
(***************************************************************************)
\* the step is a call of get_channel_videos with key k
C28_Called(k) == ch_last'.n = ch_last.n + 1 /\ ch_last'.key = k

\* C28 as stated: a call with a key whose listing failed before invokes
\* the extraction backend again.
C28_AsStated ==
    [][\A k \in ChannelKeys :
          (C28_Called(k) /\ ch_calls[k].failed > 0) =>
             ch_calls'[k].ydl = ch_calls[k].ydl + 1
      ]_vars

\* the listings that succeeded are memoized
C28_SuccessMemoized ==
    [][\A k \in ChannelKeys :
          (C28_Called(k) /\ ch_calls[k].ydl > 0 /\ ch_calls[k].failed = 0) =>
             /\ ch_calls' = ch_calls
             /\ ch_last'.value = channel_videos_cache[k]
      ]_vars

=============================================================================
